---- MODULE Spec2Model ----
(***************************************************************************)
(* Sensor node (step_detection_sketch.ino) and gateway node                *)
(* (receiver_sketch.ino) of the cadence tracker: step detection, the       *)
(* packed wire packet, the circular step history and the host protocol.    *)
(*                                                                         *)
(* Numbers: millis() values stay far below 2^32 (see the Max* bounds), so  *)
(* the unsigned subtractions of the sketches never wrap here.  A float BPM *)
(* is kept as the exact reduced fraction [num, den]; the rounding error of *)
(* the 24-bit mantissa (below the two printed decimals) is not modelled.   *)
(***************************************************************************)
EXTENDS Integers, Sequences, FiniteSets, TLC

\* --------------------------------------------------------- generic helpers
Min(a, b) == IF a < b THEN a ELSE b

Max(a, b) == IF a > b THEN a ELSE b

RECURSIVE Gcd(_, _)
Gcd(a, b) == IF b = 0 THEN a ELSE Gcd(b, a % b)

\* the float value num/den, as a reduced fraction; 0.0 is [num |-> 0, den |-> 1]
Rat(n, d) == IF n = 0 THEN [num |-> 0, den |-> 1]
             ELSE [num |-> n \div Gcd(n, d), den |-> d \div Gcd(n, d)]

ZeroBPM == Rat(0, 1)

\* Print::print(float, 2): the value rounded half-up to two decimals, in
\* hundredths (120.00 is 12000)
PrintFloat2(f) == (200 * f.num + f.den) \div (2 * f.den)

\* ------------------------------------------------------ wire format (bytes)
MSG_STEP == 1

MSG_BPM_DELTA == 2

MSG_CMD == 3

CMD_CAL_WEIGHT == 1

\* sizeof(Packet): packed tag byte + the largest union member (step, 5 bytes)
SizeofPacket == 6

\* sizeof(StepEvent): packed uint32_t + uint8_t
SizeofStepEvent == 5

\* a read of the two bytes as an unsigned value
I16FromBytes_Unsigned(b, at) == b[at] + 256 * b[at + 1]

\* little-endian bytes of an unsigned 32-bit value
U32Bytes(v) == << v % 256, (v \div 256) % 256, (v \div 65536) % 256, (v \div 16777216) % 256 >>

U32FromBytes(b, at) == b[at] + 256 * b[at + 1] + 65536 * b[at + 2] + 16777216 * b[at + 3]

\* two's-complement little-endian bytes of an int16_t
I16Bytes(v) == LET u == v % 65536 IN << u % 256, u \div 256 >>

I16FromBytes(b, at) == LET u == b[at] + 256 * b[at + 1] IN IF u >= 32768 THEN u - 65536 ELSE u

\* (int16_t)x of an int: keep the low 16 bits
ToInt16(x) == LET u == x % 65536 IN IF u >= 32768 THEN u - 65536 ELSE u

I8Bytes(v) == << v % 256 >>

I8FromBytes(b, at) == IF b[at] >= 128 THEN b[at] - 256 ELSE b[at]

\* (int8_t)x of an int
ToInt8(x) == LET u == x % 256 IN IF u >= 128 THEN u - 256 ELSE u

\* ------------------------------------------------------------- StepBuffer
MAX_WINDOW_SIZE == 20

StepEvent(interval, foot) == [intervalMS |-> interval, footId |-> foot]

\* a StepBuffer object with static storage: zeroed array, count = head = 0
StepBufferInit == [history |-> [i \in 0 .. (MAX_WINDOW_SIZE - 1) |-> StepEvent(0, 0)], count |-> 0, head |-> 0]

add(b, s) == [history |-> [b.history EXCEPT ![b.head] = s],
              head |-> (b.head + 1) % MAX_WINDOW_SIZE,
              count |-> IF b.count < MAX_WINDOW_SIZE THEN b.count + 1 ELSE b.count]

\* a sum that starts at slot 0 instead of walking back from the newest
RECURSIVE totalInterval_FromSlot0(_, _, _, _)
totalInterval_FromSlot0(b, idx, i, effectiveN) ==
    IF i >= effectiveN THEN 0
    ELSE b.history[i].intervalMS + totalInterval_FromSlot0(b, idx, i + 1, effectiveN)

\* the for loop of getAverageBPM: i iterations already done, currentIdx = idx
RECURSIVE totalInterval(_, _, _, _)
totalInterval(b, idx, i, effectiveN) ==
    IF i >= effectiveN THEN 0
    ELSE LET currentIdx == (idx - 1 + MAX_WINDOW_SIZE) % MAX_WINDOW_SIZE
         IN  b.history[currentIdx].intervalMS + totalInterval(b, currentIdx, i + 1, effectiveN)

\* an average over everything held, whatever n
effectiveN_AllHeld(b, n) == b.count

effectiveN(b, n) == IF n < b.count THEN n ELSE b.count

\* 60000 over the sum of the intervals, the count forgotten
getAverageBPM_OverSum(b, n) ==
    IF b.count = 0 THEN ZeroBPM
    ELSE IF effectiveN(b, n) = 0 THEN ZeroBPM
    ELSE LET total == totalInterval(b, b.head, 0, effectiveN(b, n))
         IN  IF total = 0 THEN ZeroBPM
             ELSE Rat(60000, total)

getAverageBPM(b, n) ==
    IF b.count = 0 THEN ZeroBPM
    ELSE IF effectiveN(b, n) = 0 THEN ZeroBPM
    ELSE LET total == totalInterval(b, b.head, 0, effectiveN(b, n))
         IN  IF total = 0 THEN ZeroBPM
             ELSE Rat(60000 * effectiveN(b, n), total)

clear(b) == [b EXCEPT !.count = 0, !.head = 0]

\* a resize that sets count whatever it was
trimToSize_Set(b, newSize) == [b EXCEPT !.count = newSize]

trimToSize(b, newSize) == IF newSize < b.count THEN [b EXCEPT !.count = newSize] ELSE b

\* ------------------------------------------------ Arduino String helpers
\* a String is a tuple of one-character strings
IsSpace(c) == c \in {" ", "\t", "\n", "\r"}

RECURSIVE ltrim(_)
ltrim(s) == IF s # << >> /\ IsSpace(Head(s)) THEN ltrim(Tail(s)) ELSE s

RECURSIVE rtrim(_)
rtrim(s) == IF s # << >> /\ IsSpace(s[Len(s)]) THEN rtrim(SubSeq(s, 1, Len(s) - 1)) ELSE s

\* String::trim()
trim(s) == rtrim(ltrim(s))

\* String::startsWith(prefix)
startsWith(s, prefix) == Len(s) >= Len(prefix) /\ SubSeq(s, 1, Len(prefix)) = prefix

\* String::indexOf(ch): 0-based index of the first ch, -1 when absent
RECURSIVE indexFrom(_, _, _)
indexFrom(s, ch, i) == IF i > Len(s) THEN -1 ELSE IF s[i] = ch THEN i - 1 ELSE indexFrom(s, ch, i + 1)

indexOf(s, ch) == indexFrom(s, ch, 1)

\* String::substring(from), 0-based
substring(s, from) == SubSeq(s, from + 1, Len(s))

Digits == {"0", "1", "2", "3", "4", "5", "6", "7", "8", "9"}

DigitValue(c) == CHOOSE d \in 0 .. 9 : << "0", "1", "2", "3", "4", "5", "6", "7", "8", "9" >>[d + 1] = c

RECURSIVE atolDigits(_, _)
atolDigits(s, acc) == IF s # << >> /\ Head(s) \in Digits
                      THEN atolDigits(Tail(s), 10 * acc + DigitValue(Head(s)))
                      ELSE acc

\* String::toInt(): atol() - leading blanks, an optional sign, then digits up
\* to the first other character; 0 when there is no digit
toInt(s) == LET t == ltrim(s)
            IN  IF t # << >> /\ Head(t) = "-" THEN 0 - atolDigits(Tail(t), 0)
                ELSE IF t # << >> /\ Head(t) = "+" THEN atolDigits(Tail(t), 0)
                ELSE atolDigits(t, 0)

T_RESET == << "R", "E", "S", "E", "T" >>

T_START == << "S", "T", "A", "R", "T" >>

T_SET_WINDOW == << "S", "E", "T", "_", "W", "I", "N", "D", "O", "W", "," >>

T_SET_STRIDE == << "S", "E", "T", "_", "S", "T", "R", "I", "D", "E", "," >>

T_CAL_WEIGHT == << "C", "A", "L", "_", "W", "E", "I", "G", "H", "T" >>

\* a line written to the host: its text up to the numbers, and the numbers
Line(tag, val) == [tag |-> tag, val |-> val]

\* ------------------------------------------------------------------ state
VARIABLES
    \* gateway globals (receiver_sketch.ino)
    smoothingWindow, updateStride, sessionStarted, sessionStarting, sessionStartTime,
    stepCounter, lastCalculatedBPM, stepHistory, currentStep, messageRecv, lastMsgType,
    lastStepRecvTime, lastDelta,
    \* gateway loop(): position, and the locals now, type, stepCopy, deltaCopy
    pc, now, type, stepCopy, deltaCopy,
    \* host link: lines waiting in the receive buffer; lines (serialTx) and radio
    \* buffers (radioTx) written by the step just taken
    serialRx, serialTx, radioTx,
    \* observation: what the step just taken was; the steps the history holds,
    \* oldest first, kept as a plain sequence; the window w set by the last
    \* accepted SET_WINDOW if the history then held more than w steps (else 0);
    \* input counters; the buffers the callback took as a step or a tick, in
    \* arrival order (arrived), how many of them had arrived when loop() last
    \* took its copy (copied), the lines a specification keeps of those
    \* written to the host, in order (reported: whole lines, or the single
    \* Serial.print calls with their writer), the packets sent and not yet
    \* delivered, each way (air), and the Serial.print calls of the line loop()
    \* is writing that are still to come (writing)
    ev, stepLog, winCut, nRecv, nVary, handoff,
    \* the linked-list gateway this one supersedes, fed the same lines and
    \* steps: its globals, the step line it wrote last, and whether a SET_WINDOW
    \* has raised the window over a history longer than the old one since the
    \* last START
    legacy

gwGlobals == << smoothingWindow, updateStride, sessionStarted, sessionStarting, sessionStartTime,
                stepCounter, lastCalculatedBPM, stepHistory, lastStepRecvTime >>

gwShared == << currentStep, messageRecv, lastMsgType, lastDelta >>

gwLocals == << pc, now, type, stepCopy, deltaCopy >>

gwIo == << serialRx, serialTx, radioTx >>

gwObs == << ev, stepLog, winCut, nRecv, nVary, handoff, legacy >>

gwVars == << gwGlobals, gwShared, gwLocals, gwIo, gwObs >>

\* the sequence a StepBuffer is meant to stand for, under its three operations
logAdd(l, s) == IF Len(l) < MAX_WINDOW_SIZE THEN Append(l, s) ELSE Append(Tail(l), s)

logTrim(l, n) == IF n < Len(l) THEN SubSeq(l, Len(l) - n + 1, Len(l)) ELSE l

\* ------------------------------------------- the linked-list gateway
\* Head stepHistory = {0, NULL}: the nodes from first, the newest, to the oldest
HeadInit == [listSize |-> 0, first |-> << >>]

addNode(h, newStep) == [listSize |-> h.listSize + 1, first |-> << newStep >> \o h.first]

\* a deleteLastNode that frees the newest node
deleteLastNode_Newest(h) ==
    IF h.first = << >> THEN h
    ELSE [listSize |-> h.listSize - 1, first |-> Tail(h.first)]

deleteLastNode(h) ==
    IF h.first = << >> THEN h
    ELSE [listSize |-> h.listSize - 1, first |-> SubSeq(h.first, 1, Len(h.first) - 1)]

\* the while loop of calculateAverageBPM
RECURSIVE listTotal(_)
listTotal(nodes) == IF nodes = << >> THEN 0 ELSE Head(nodes).intervalMS + listTotal(Tail(nodes))

calculateAverageBPM(h) ==
    IF h.listSize = 0 THEN ZeroBPM
    ELSE LET total == listTotal(h.first)
         IN  IF total = 0 THEN ZeroBPM ELSE Rat(60000 * h.listSize, total)

clearList(h) == [listSize |-> 0, first |-> << >>]

\* while (stepHistory.listSize > smoothingWindow) deleteLastNode()
RECURSIVE trimList(_, _)
trimList(h, w) == IF h.listSize > w /\ h.first # << >> THEN trimList(deleteLastNode(h), w) ELSE h

\* the globals of the linked-list sketch after setup()
LegacyInit ==
    [smoothingWindow |-> 3, updateStride |-> 1, sessionStarted |-> FALSE, sessionStarting |-> TRUE,
     sessionStartTime |-> 0, stepCounter |-> 0, lastCalculatedBPM |-> ZeroBPM,
     stepHistory |-> HeadInit, lastStepRecvTime |-> 0, line |-> << >>, widened |-> FALSE]

GwInit ==
    /\ legacy = LegacyInit
    /\ smoothingWindow = 3
    /\ updateStride = 1
    /\ sessionStarted = FALSE
    /\ sessionStarting = TRUE
    /\ sessionStartTime = 0
    /\ stepCounter = 0
    /\ lastCalculatedBPM = ZeroBPM
    /\ stepHistory = StepBufferInit
    /\ currentStep = StepEvent(0, 0)
    /\ messageRecv = FALSE
    /\ lastMsgType = 0
    /\ lastStepRecvTime = 0
    /\ lastDelta = 0
    /\ pc = "top"
    /\ now = 0
    /\ type = 0
    /\ stepCopy = StepEvent(0, 0)
    /\ deltaCopy = 0
    /\ serialRx = << >>
    /\ serialTx = << >>
    /\ radioTx = << >>
    /\ ev = [kind |-> "boot"]
    /\ stepLog = << >>
    /\ winCut = 0
    /\ nRecv = 0
    /\ nVary = 0
    /\ handoff = [arrived |-> << >>, copied |-> 0, reported |-> << >>,
                  air |-> [sensor |-> << >>, gateway |-> << >>], writing |-> << >>]

\* ------------------------------------------------- gateway: receive callback
\* a dispatch that takes every tag other than TempoDelta and Control as a step
recvPacket_StepByDefault(data) ==
    IF data[1] = MSG_BPM_DELTA
    THEN /\ lastDelta' = I8FromBytes(data, 2)
         /\ lastMsgType' = MSG_BPM_DELTA
         /\ messageRecv' = TRUE
         /\ serialTx' = << >>
         /\ UNCHANGED currentStep
    ELSE IF data[1] = MSG_CMD
    THEN /\ serialTx' = IF data[2] = CMD_CAL_WEIGHT
                        THEN IF I16FromBytes(data, 3) >= 0
                             THEN << Line("ACK,CAL_WEIGHT,", << I16FromBytes(data, 3) >>) >>
                             ELSE << Line("ERR,CAL_WEIGHT", << >>) >>
                        ELSE << >>
         /\ UNCHANGED << currentStep, lastMsgType, messageRecv, lastDelta >>
    ELSE /\ currentStep' = StepEvent(U32FromBytes(data, 2), data[6])
         /\ lastMsgType' = MSG_STEP
         /\ messageRecv' = TRUE
         /\ serialTx' = << >>
         /\ UNCHANGED lastDelta

\* a buffer of sizeof(Packet) bytes, by its tag
recvPacket(data) ==
    IF data[1] = MSG_STEP
    THEN /\ currentStep' = StepEvent(U32FromBytes(data, 2), data[6])
         /\ lastMsgType' = MSG_STEP
         /\ messageRecv' = TRUE
         /\ serialTx' = << >>
         /\ UNCHANGED lastDelta
    ELSE IF data[1] = MSG_BPM_DELTA
    THEN /\ lastDelta' = I8FromBytes(data, 2)
         /\ lastMsgType' = MSG_BPM_DELTA
         /\ messageRecv' = TRUE
         /\ serialTx' = << >>
         /\ UNCHANGED currentStep
    ELSE IF data[1] = MSG_CMD
    THEN /\ serialTx' = IF data[2] = CMD_CAL_WEIGHT
                        THEN IF I16FromBytes(data, 3) >= 0
                             THEN << Line("ACK,CAL_WEIGHT,", << I16FromBytes(data, 3) >>) >>
                             ELSE << Line("ERR,CAL_WEIGHT", << >>) >>
                        ELSE << >>
         /\ UNCHANGED << currentStep, lastMsgType, messageRecv, lastDelta >>
    ELSE /\ serialTx' = << >>
         /\ UNCHANGED << currentStep, lastMsgType, messageRecv, lastDelta >>

\* raw StepEvent fallback: memcpy(&currentStep, incomingData, sizeof(StepEvent))
recvLegacy(data) ==
    /\ currentStep' = StepEvent(U32FromBytes(data, 1), data[5])
    /\ lastMsgType' = MSG_STEP
    /\ messageRecv' = TRUE
    /\ serialTx' = << >>
    /\ UNCHANGED lastDelta

\* a callback that takes any buffer of at least sizeof(Packet) bytes as a Packet
onDataRecv_AtLeast(data) ==
    /\ ev' = [kind |-> "recv", data |-> data]
    /\ radioTx' = << >>
    /\ IF Len(data) >= SizeofPacket THEN recvPacket(data)
       ELSE IF Len(data) = SizeofStepEvent THEN recvLegacy(data)
       ELSE /\ serialTx' = << >>
            /\ UNCHANGED << currentStep, lastMsgType, messageRecv, lastDelta >>
    /\ UNCHANGED << gwGlobals, gwLocals, serialRx, stepLog, winCut >>

\* onDataRecv(mac, incomingData, len) with len = Len(data); runs whenever a
\* buffer arrives, between any two steps of loop()
onDataRecv(data) ==
    /\ ev' = [kind |-> "recv", data |-> data]
    /\ radioTx' = << >>
    /\ IF Len(data) = SizeofPacket THEN recvPacket(data)
       ELSE IF Len(data) = SizeofStepEvent THEN recvLegacy(data)
       ELSE /\ serialTx' = << >>
            /\ UNCHANGED << currentStep, lastMsgType, messageRecv, lastDelta >>
    /\ UNCHANGED << gwGlobals, gwLocals, serialRx, stepLog, winCut >>

\* ------------------------------------------------ gateway: command handlers
\* bytes of Packet p{} with type = MSG_CMD, ctrl.cmd, ctrl.arg (rest zero)
ControlPacket(cmd, arg) == << MSG_CMD, cmd % 256 >> \o I16Bytes(arg) \o << 0, 0 >>

\* sendControl hands the packet to esp_now_send(); ok is what that returns
sendControl(cmd, arg, ok) == radioTx' = IF ok THEN << ControlPacket(cmd, arg) >> ELSE << >>

\* a RESET that also empties the history and the step counter
handleReset_Clears ==
    /\ sessionStarting' = TRUE
    /\ stepHistory' = clear(stepHistory)
    /\ stepLog' = << >>
    /\ stepCounter' = 0
    /\ serialTx' = << Line("ACK,RESET", << >>) >>
    /\ UNCHANGED << smoothingWindow, updateStride, sessionStarted, sessionStartTime,
                    lastCalculatedBPM, lastStepRecvTime, winCut, radioTx >>

\* a RESET that acknowledges without arming the next START
handleReset_NoRearm ==
    /\ serialTx' = << Line("ACK,RESET", << >>) >>
    /\ UNCHANGED << gwGlobals, stepLog, winCut, radioTx >>

handleReset ==
    /\ sessionStarting' = TRUE
    /\ serialTx' = << Line("ACK,RESET", << >>) >>
    /\ UNCHANGED << smoothingWindow, updateStride, sessionStarted, sessionStartTime, stepCounter,
                    lastCalculatedBPM, stepHistory, lastStepRecvTime, stepLog, winCut, radioTx >>

\* a START that keeps the history and the step counter
handleStart_KeepsHistory ==
    IF ~sessionStarting
    THEN /\ serialTx' = << >>
         /\ UNCHANGED << gwGlobals, stepLog, winCut, radioTx >>
    ELSE /\ sessionStarting' = FALSE
         /\ sessionStarted' = TRUE
         /\ sessionStartTime' = now
         /\ lastCalculatedBPM' = ZeroBPM
         /\ serialTx' = << Line("ACK,START", << >>) >>
         /\ UNCHANGED << smoothingWindow, updateStride, lastStepRecvTime, radioTx, winCut,
                         stepHistory, stepLog, stepCounter >>

\* a START honoured whatever sessionStarting is
handleStart_Unguarded ==
    /\ stepHistory' = clear(stepHistory)
    /\ stepLog' = << >>
    /\ sessionStarting' = FALSE
    /\ sessionStarted' = TRUE
    /\ sessionStartTime' = now
    /\ stepCounter' = 0
    /\ lastCalculatedBPM' = ZeroBPM
    /\ serialTx' = << Line("ACK,START", << >>) >>
    /\ UNCHANGED << smoothingWindow, updateStride, lastStepRecvTime, radioTx, winCut >>

handleStart ==
    IF ~sessionStarting
    THEN /\ serialTx' = << >>
         /\ UNCHANGED << gwGlobals, stepLog, winCut, radioTx >>
    ELSE /\ stepHistory' = clear(stepHistory)
         /\ stepLog' = << >>
         /\ sessionStarting' = FALSE
         /\ sessionStarted' = TRUE
         /\ sessionStartTime' = now
         /\ stepCounter' = 0
         /\ lastCalculatedBPM' = ZeroBPM
         /\ serialTx' = << Line("ACK,START", << >>) >>
         /\ UNCHANGED << smoothingWindow, updateStride, lastStepRecvTime, radioTx, winCut >>

\* a SET_WINDOW without the upper limit
handleSetWindow_NoLimit(command) ==
    LET commaIndex == indexOf(command, ",")
        val == toInt(substring(command, commaIndex + 1))
    IN  IF commaIndex # -1 /\ val > 0
        THEN /\ smoothingWindow' = val
             /\ updateStride' = IF updateStride > val THEN val ELSE updateStride
             /\ stepHistory' = trimToSize(stepHistory, val)
             /\ stepLog' = logTrim(stepLog, val)
             /\ winCut' = IF stepHistory.count > val THEN val ELSE 0
             /\ serialTx' = << Line("ACK,WINDOW,", << val >>) >>
             /\ UNCHANGED << sessionStarted, sessionStarting, sessionStartTime, stepCounter,
                             lastCalculatedBPM, lastStepRecvTime, radioTx >>
        ELSE /\ serialTx' = << >>
             /\ UNCHANGED << gwGlobals, stepLog, winCut, radioTx >>

\* a SET_WINDOW that leaves the stride alone
handleSetWindow_NoClamp(command) ==
    LET commaIndex == indexOf(command, ",")
        val == toInt(substring(command, commaIndex + 1))
    IN  IF commaIndex # -1 /\ val > 0 /\ val <= 20
        THEN /\ smoothingWindow' = val
             /\ updateStride' = updateStride
             /\ stepHistory' = trimToSize(stepHistory, val)
             /\ stepLog' = logTrim(stepLog, val)
             /\ winCut' = IF stepHistory.count > val THEN val ELSE 0
             /\ serialTx' = << Line("ACK,WINDOW,", << val >>) >>
             /\ UNCHANGED << sessionStarted, sessionStarting, sessionStartTime, stepCounter,
                             lastCalculatedBPM, lastStepRecvTime, radioTx >>
        ELSE /\ serialTx' = << >>
             /\ UNCHANGED << gwGlobals, stepLog, winCut, radioTx >>

handleSetWindow(command) ==
    LET commaIndex == indexOf(command, ",")
        val == toInt(substring(command, commaIndex + 1))
    IN  IF commaIndex # -1 /\ val > 0 /\ val <= 20
        THEN /\ smoothingWindow' = val
             /\ updateStride' = IF updateStride > val THEN val ELSE updateStride
             /\ stepHistory' = trimToSize(stepHistory, val)
             /\ stepLog' = logTrim(stepLog, val)
             /\ winCut' = IF stepHistory.count > val THEN val ELSE 0
             /\ serialTx' = << Line("ACK,WINDOW,", << val >>) >>
             /\ UNCHANGED << sessionStarted, sessionStarting, sessionStartTime, stepCounter,
                             lastCalculatedBPM, lastStepRecvTime, radioTx >>
        ELSE /\ serialTx' = << >>
             /\ UNCHANGED << gwGlobals, stepLog, winCut, radioTx >>

handleSetStride(command) ==
    LET commaIndex == indexOf(command, ",")
        val == toInt(substring(command, commaIndex + 1))
    IN  IF commaIndex # -1 /\ val > 0 /\ val <= smoothingWindow
        THEN /\ updateStride' = val
             /\ serialTx' = << Line("ACK,STRIDE,", << val >>) >>
             /\ UNCHANGED << smoothingWindow, sessionStarted, sessionStarting, sessionStartTime,
                             stepCounter, lastCalculatedBPM, stepHistory, lastStepRecvTime,
                             stepLog, winCut, radioTx >>
        ELSE /\ serialTx' = << >>
             /\ UNCHANGED << gwGlobals, stepLog, winCut, radioTx >>

\* handleCalibrateWeight, then the println of processSerialCommands that follows it
handleCalibrateWeight(command, ok) ==
    LET commaIndex == indexOf(command, ",")
        parsed == toInt(substring(command, commaIndex + 1))
        margin == IF commaIndex # -1 THEN (IF parsed <= 0 THEN 150 ELSE parsed) ELSE 150
    IN  /\ sendControl(CMD_CAL_WEIGHT, ToInt16(margin), ok)
        /\ serialTx' = << Line(IF ok THEN "ACK,CAL_WEIGHT" ELSE "ERR,CAL_WEIGHT", << >>),
                          Line("ACK,CAL_WEIGHT,DISPATCHED", << >>) >>
        /\ UNCHANGED << gwGlobals, stepLog, winCut >>

\* ------------------------------------------------------- gateway: loop()
\* unsigned long now = millis()
loopTop(t) ==
    /\ pc = "top"
    /\ now' = t
    /\ pc' = "cmds"
    /\ ev' = [kind |-> "top"]
    /\ serialTx' = << >>
    /\ radioTx' = << >>
    /\ UNCHANGED << gwGlobals, gwShared, type, stepCopy, deltaCopy, serialRx, stepLog, winCut,
                    nRecv, nVary, handoff, legacy >>

\* one turn of the while loop of processSerialCommands
processSerialCommands(ok) ==
    /\ pc = "cmds"
    /\ serialRx # << >>
    /\ LET command == trim(Head(serialRx))
       IN  /\ serialRx' = Tail(serialRx)
           /\ ev' = [kind |-> "cmd", command |-> command]
           /\ IF command = T_RESET THEN handleReset
              ELSE IF command = T_START THEN handleStart
              ELSE IF startsWith(command, T_SET_WINDOW) THEN handleSetWindow(command)
              ELSE IF startsWith(command, T_SET_STRIDE) THEN handleSetStride(command)
              ELSE IF startsWith(command, T_CAL_WEIGHT) THEN handleCalibrateWeight(command, ok)
              ELSE /\ serialTx' = << >>
                   /\ UNCHANGED << gwGlobals, stepLog, winCut, radioTx >>
    /\ UNCHANGED << gwShared, gwLocals, nRecv, nVary, handoff >>

\* processSerialCommands on a CAL_WEIGHT line, up to the return of
\* handleCalibrateWeight: the packet is handed to the radio and the first line
\* written; the println that follows is still to come
dispatchSend(ok) ==
    /\ pc = "cmds"
    /\ serialRx # << >>
    /\ startsWith(trim(Head(serialRx)), T_CAL_WEIGHT)
    /\ LET command == trim(Head(serialRx))
           commaIndex == indexOf(command, ",")
           parsed == toInt(substring(command, commaIndex + 1))
           margin == IF commaIndex # -1 THEN (IF parsed <= 0 THEN 150 ELSE parsed) ELSE 150
       IN  /\ serialRx' = Tail(serialRx)
           /\ ev' = [kind |-> "cmd", command |-> command]
           /\ sendControl(CMD_CAL_WEIGHT, ToInt16(margin), ok)
           /\ serialTx' = << Line(IF ok THEN "ACK,CAL_WEIGHT" ELSE "ERR,CAL_WEIGHT", << >>) >>
    /\ pc' = "cal"
    /\ UNCHANGED << gwGlobals, gwShared, now, type, stepCopy, deltaCopy, stepLog, winCut >>

\* Serial.println("ACK,CAL_WEIGHT,DISPATCHED"), back in the while loop
dispatchPrint ==
    /\ pc = "cal"
    /\ serialTx' = << Line("ACK,CAL_WEIGHT,DISPATCHED", << >>) >>
    /\ radioTx' = << >>
    /\ ev' = [kind |-> "dispatched"]
    /\ pc' = "cmds"
    /\ UNCHANGED << gwGlobals, gwShared, now, type, stepCopy, deltaCopy, serialRx, stepLog, winCut >>

\* Serial.available() is 0: the while loop ends; then if (messageRecv)
loopCheck ==
    /\ pc = "cmds"
    /\ serialRx = << >>
    /\ pc' = IF messageRecv THEN "copy" ELSE "top"
    /\ ev' = [kind |-> "check"]
    /\ serialTx' = << >>
    /\ radioTx' = << >>
    /\ UNCHANGED << gwGlobals, gwShared, now, type, stepCopy, deltaCopy, serialRx, stepLog, winCut,
                    nRecv, nVary, handoff, legacy >>

\* a copy without the critical section, read field by field while a step of
\* 1000 ms arrives after footId was read and before intervalMS is
loopCopy_Torn ==
    /\ pc = "copy"
    /\ type' = lastMsgType
    /\ stepCopy' = StepEvent(1000, currentStep.footId)
    /\ deltaCopy' = lastDelta
    /\ messageRecv' = FALSE
    /\ pc' = "process"
    /\ ev' = [kind |-> "copy"]
    /\ serialTx' = << >>
    /\ radioTx' = << >>
    /\ UNCHANGED << gwGlobals, currentStep, lastMsgType, lastDelta, now, serialRx, stepLog, winCut,
                    nRecv, nVary >>

\* noInterrupts(); copy; messageRecv = false; interrupts();
loopCopy ==
    /\ pc = "copy"
    /\ type' = lastMsgType
    /\ stepCopy' = currentStep
    /\ deltaCopy' = lastDelta
    /\ messageRecv' = FALSE
    /\ pc' = "process"
    /\ ev' = [kind |-> "copy"]
    /\ serialTx' = << >>
    /\ radioTx' = << >>
    /\ UNCHANGED << gwGlobals, currentStep, lastMsgType, lastDelta, now, serialRx, stepLog, winCut,
                    nRecv, nVary >>

instantBPM(interval) == IF interval > 0 THEN Rat(60000, interval) ELSE ZeroBPM

StepLine(t, foot, inst, bpm) == Line("STEP", << t, foot, PrintFloat2(inst), PrintFloat2(bpm) >>)

\* a fresh average on every step
isRecompute_Always(counter, stride) == TRUE

\* if (stepCounter % updateStride == 0), stepCounter already incremented
isRecompute(counter, stride) == counter % stride = 0

\* else: the step goes to the history and the estimator
loopEstimate ==
    LET hist == add(stepHistory, stepCopy)
        recompute == isRecompute(stepCounter + 1, updateStride)
        bpm == IF recompute THEN getAverageBPM(hist, smoothingWindow) ELSE lastCalculatedBPM
    IN  /\ lastStepRecvTime' = now
        /\ stepHistory' = hist
        /\ stepLog' = logAdd(stepLog, stepCopy)
        /\ stepCounter' = stepCounter + 1
        /\ lastCalculatedBPM' = bpm
        /\ serialTx' = << StepLine(now, stepCopy.footId, instantBPM(stepCopy.intervalMS), bpm) >>
        /\ ev' = [kind |-> "step", recompute |-> recompute]
        /\ UNCHANGED << smoothingWindow, updateStride, sessionStarted, sessionStarting,
                        sessionStartTime, winCut >>

\* a first step after START treated like any other
loopSeed_Estimate == loopEstimate

\* if (sessionStarted): the first step after START seeds the timing only
loopSeed ==
    /\ sessionStarted' = FALSE
    /\ lastStepRecvTime' = now
    /\ serialTx' = << StepLine(now, stepCopy.footId, instantBPM(0), ZeroBPM) >>
    /\ ev' = [kind |-> "seed"]
    /\ UNCHANGED << smoothingWindow, updateStride, sessionStarting, sessionStartTime,
                    stepCounter, lastCalculatedBPM, stepHistory, stepLog, winCut >>

\* a loop() that lets a button tick use up the seed of the session
loopProcess_TickSeeds ==
    /\ pc = "process"
    /\ pc' = "top"
    /\ radioTx' = << >>
    /\ IF type = MSG_BPM_DELTA
       THEN /\ serialTx' = << Line("BTN,", << deltaCopy >>) >>
            /\ ev' = [kind |-> "btn"]
            /\ sessionStarted' = FALSE
            /\ UNCHANGED << smoothingWindow, updateStride, sessionStarting, sessionStartTime, stepCounter,
                            lastCalculatedBPM, stepHistory, lastStepRecvTime, stepLog, winCut >>
       ELSE IF sessionStarted THEN loopSeed ELSE loopEstimate
    /\ type' = 0
    /\ stepCopy' = StepEvent(0, 0)
    /\ deltaCopy' = 0
    /\ UNCHANGED << gwShared, now, serialRx, nRecv, nVary >>

\* the rest of the if (messageRecv) block
loopProcess ==
    /\ pc = "process"
    /\ pc' = "top"
    /\ radioTx' = << >>
    /\ IF type = MSG_BPM_DELTA
       THEN /\ serialTx' = << Line("BTN,", << deltaCopy >>) >>
            /\ ev' = [kind |-> "btn"]
            /\ UNCHANGED << gwGlobals, stepLog, winCut >>
       ELSE IF sessionStarted THEN loopSeed ELSE loopEstimate
    \* type, stepCopy and deltaCopy go out of scope with the block
    /\ type' = 0
    /\ stepCopy' = StepEvent(0, 0)
    /\ deltaCopy' = 0
    /\ UNCHANGED << gwShared, now, serialRx, nRecv, nVary >>

\* ------------------------------------------------------------ sensor node
VARIABLES
    \* sensor globals (step_detection_sketch.ino)
    threshold, pressureBuffer, lastStepTime, lastStepSentTime, leftFlag, rightFlag,
    ctrlPending, ctrlPacket, buttonUp, buttonDown,
    \* loop() statics rState and lState
    rState, lState,
    \* the earliest value the next millis() can return; packets (sensorTx) and
    \* serial lines (sensorSerial) written by the step just taken
    sensorClock, sensorTx, sensorSerial,
    \* observation: what the poll just taken saw and did; per foot, whether the
    \* filtered value was at or below threshold - pressureBuffer in some poll
    \* since the foot last triggered; the poll time of the last Step packet
    \* sent (-1: none yet); per foot, how often it triggered; input counters
    \* the levels the two feet last showed to analogRead; the level of the Up
    \* button's pin and the time it has had it since
    sEv, dropSeen, sentAt, nTrig, nPoll, rawLevel, upPin, nEvents

sensorVars == << threshold, pressureBuffer, lastStepTime, lastStepSentTime, leftFlag, rightFlag,
                 ctrlPending, ctrlPacket, buttonUp, buttonDown, rState, lState,
                 sensorClock, sensorTx, sensorSerial, sEv, dropSeen, sentAt, nTrig, nPoll,
                 rawLevel, upPin, nEvents >>

vars == << gwVars, sensorVars >>

RIGHT == 1

LEFT == 2

REFRACTORY_MS == 120

DEBOUNCE_MS == 25

FIRST_REPEAT_DELAY_MS == 200

REPEAT_RATE_MS == 60

\* Arduino pin levels as bool
HIGH == TRUE

LOW == FALSE

\* struct Button's default member initializers
ButtonInit == [stable |-> HIGH, lastRaw |-> HIGH, tChange |-> 0, tPress |-> 0, tRepeat |-> 0]

SensorInit ==
    /\ threshold = 1200
    /\ pressureBuffer = 600
    /\ lastStepTime = 0
    /\ lastStepSentTime = 0
    /\ leftFlag = FALSE
    /\ rightFlag = FALSE
    /\ ctrlPending = FALSE
    /\ ctrlPacket = << 0, 0, 0, 0, 0, 0 >>
    /\ buttonUp = ButtonInit
    /\ buttonDown = ButtonInit
    /\ rState = 0
    /\ lState = 0
    /\ sensorClock = 0
    /\ sensorTx = << >>
    /\ sensorSerial = << >>
    /\ sEv = [kind |-> "boot"]
    /\ dropSeen = [f \in {RIGHT, LEFT} |-> TRUE]
    /\ sentAt = -1
    /\ nTrig = [f \in {RIGHT, LEFT} |-> 0]
    /\ nPoll = 0
    /\ rawLevel = [f \in {RIGHT, LEFT} |-> 0]
    /\ upPin = [level |-> TRUE, since |-> 0]
    /\ nEvents = 0

\* bytes of the sensor's Packet p{} for each variant (rest zero)
StepPacket(interval, foot) == << MSG_STEP >> \o U32Bytes(interval) \o << foot % 256 >>

DeltaPacket(delta) == << MSG_BPM_DELTA >> \o I8Bytes(ToInt8(delta)) \o << 0, 0, 0, 0 >>

\* sendControlAck(cmd, arg): the packet handed to sendPacket
sendControlAck(cmd, arg) == << MSG_CMD, cmd % 256 >> \o I16Bytes(arg) \o << 0, 0 >>

\* sensor onDataRecv: keep a full-size MSG_CMD packet for the loop
sensorOnDataRecv(data) ==
    /\ IF Len(data) = SizeofPacket /\ data[1] = MSG_CMD
       THEN ctrlPacket' = data /\ ctrlPending' = TRUE
       ELSE UNCHANGED << ctrlPacket, ctrlPending >>
    /\ sEv' = [kind |-> "recv", data |-> data]
    /\ sensorTx' = << >>
    /\ sensorSerial' = << >>
    /\ UNCHANGED << threshold, pressureBuffer, lastStepTime, lastStepSentTime, leftFlag, rightFlag,
                    buttonUp, buttonDown, rState, lState, sensorClock, dropSeen, sentAt, nTrig, nPoll,
                    rawLevel, upPin >>

\* a calibration that adds the margin to the baseline
calibrateWeight_Plus(samples, sumR, sumL, margin, minThresh) ==
    LET baseline == Max(sumR \div samples, sumL \div samples)
        newThresh == Max(minThresh, baseline + margin)
    IN  [threshold |-> newThresh, pressureBuffer |-> Max(200, newThresh \div 2)]

\* a calibration without the floor minThresh
calibrateWeight_NoFloor(samples, sumR, sumL, margin, minThresh) ==
    LET baseline == Max(sumR \div samples, sumL \div samples)
        newThresh == baseline - margin
    IN  [threshold |-> newThresh, pressureBuffer |-> Max(200, newThresh \div 2)]

\* calibrateWeight(samples, delayMs, margin, minThresh) given the two sums of
\* the analogRead samples: the new threshold and pressureBuffer
calibrateWeight(samples, sumR, sumL, margin, minThresh) ==
    LET avgR == sumR \div samples
        avgL == sumL \div samples
        baseline == Max(avgR, avgL)
        newThresh == Max(minThresh, baseline - margin)
    IN  [threshold |-> newThresh, pressureBuffer |-> Max(200, newThresh \div 2)]

CalSamples == 200

CalDelayMs == 5

CalMinThresh == 300

\* a processControlIfPending that calibrates whatever the cmd
processControl_AnyCmd(p, sumR, sumL) ==
    LET arg == I16FromBytes(p, 3)
        margin == IF arg <= 0 THEN 150 ELSE arg
        cal == calibrateWeight(CalSamples, sumR, sumL, margin, CalMinThresh)
    IN  [threshold |-> cal.threshold, pressureBuffer |-> cal.pressureBuffer,
         tx |-> << sendControlAck(CMD_CAL_WEIGHT, ToInt16(cal.threshold)) >>, stall |-> CalSamples * CalDelayMs]

\* a processControlIfPending whose calibration takes no time
processControl_NoStall(p, sumR, sumL) ==
    IF p[2] = CMD_CAL_WEIGHT
    THEN LET arg == I16FromBytes(p, 3)
             margin == IF arg <= 0 THEN 150 ELSE arg
             cal == calibrateWeight(CalSamples, sumR, sumL, margin, CalMinThresh)
         IN  [threshold |-> cal.threshold, pressureBuffer |-> cal.pressureBuffer,
              tx |-> << sendControlAck(CMD_CAL_WEIGHT, ToInt16(cal.threshold)) >>, stall |-> 0]
    ELSE [threshold |-> threshold, pressureBuffer |-> pressureBuffer,
          tx |-> << sendControlAck(p[2], -1) >>, stall |-> 0]

\* processControlIfPending on the copied packet p: new tuning and the reply
processControl(p, sumR, sumL) ==
    IF p[2] = CMD_CAL_WEIGHT
    THEN LET arg == I16FromBytes(p, 3)
             margin == IF arg <= 0 THEN 150 ELSE arg
             cal == calibrateWeight(CalSamples, sumR, sumL, margin, CalMinThresh)
         IN  [threshold |-> cal.threshold, pressureBuffer |-> cal.pressureBuffer,
              tx |-> << sendControlAck(CMD_CAL_WEIGHT, ToInt16(cal.threshold)) >>, stall |-> CalSamples * CalDelayMs]
    ELSE [threshold |-> threshold, pressureBuffer |-> pressureBuffer,
          tx |-> << sendControlAck(p[2], -1) >>, stall |-> 0]

lowPass(raw, state) == (state * 3 + raw) \div 4

\* A uint32_t value of millis() is held as the int32 with the same bits: the
\* values before the clock wraps at 2^32 are the negative ones. U32Diff is the
\* uint32_t difference a - b in that form (the runs keep it within int32), and
\* U32AtLeast(d, c) the unsigned comparison d >= c for a constant 0 <= c < 2^31.
U32Diff(a, b) == a - b

U32AtLeast(d, c) == d < 0 \/ d >= c

\* debouncedPressed(b, now) with raw = digitalRead(b.pin): the updated button
debounced(b, t, raw) ==
    LET b1 == IF raw # b.lastRaw THEN [b EXCEPT !.lastRaw = raw, !.tChange = t] ELSE b
    IN  IF U32AtLeast(U32Diff(t, b1.tChange), DEBOUNCE_MS) THEN [b1 EXCEPT !.stable = raw] ELSE b1

accelStep(heldMs) == IF U32AtLeast(heldMs, 2500) THEN 5 ELSE IF U32AtLeast(heldMs, 1000) THEN 2 ELSE 1

\* a handleButton whose press edge leaves the repeat timer alone
handleButton_NoArm(b, dir, t, raw) ==
    LET d == debounced(b, t, raw)
        pressed == (d.stable = LOW)
    IN  IF pressed /\ d.tPress = 0
        THEN [b |-> [d EXCEPT !.tPress = t], tx |-> << DeltaPacket(dir * 1) >>]
        ELSE IF ~pressed /\ d.tPress # 0
        THEN [b |-> [d EXCEPT !.tPress = 0], tx |-> << >>]
        ELSE IF pressed /\ d.tPress # 0 /\ U32AtLeast(U32Diff(t, d.tPress), FIRST_REPEAT_DELAY_MS)
                /\ U32AtLeast(U32Diff(t, d.tRepeat), REPEAT_RATE_MS)
        THEN [b |-> [d EXCEPT !.tRepeat = t],
              tx |-> << DeltaPacket(dir * accelStep(U32Diff(t, d.tPress))) >>]
        ELSE [b |-> d, tx |-> << >>]

\* a handleButton whose repeats go by the press-start time alone and whose
\* release leaves that time standing
handleButton_KeepsRepeating(b, dir, t, raw) ==
    LET d == debounced(b, t, raw)
        pressed == (d.stable = LOW)
    IN  IF pressed /\ d.tPress = 0
        THEN [b |-> [d EXCEPT !.tPress = t, !.tRepeat = t], tx |-> << DeltaPacket(dir * 1) >>]
        ELSE IF d.tPress # 0 /\ U32AtLeast(U32Diff(t, d.tPress), FIRST_REPEAT_DELAY_MS)
                /\ U32AtLeast(U32Diff(t, d.tRepeat), REPEAT_RATE_MS)
        THEN [b |-> [d EXCEPT !.tRepeat = t],
              tx |-> << DeltaPacket(dir * accelStep(U32Diff(t, d.tPress))) >>]
        ELSE [b |-> d, tx |-> << >>]

\* handleButton(b, dir, now): the updated button and the packets sent
handleButton(b, dir, t, raw) ==
    LET d == debounced(b, t, raw)
        pressed == (d.stable = LOW)
    IN  IF pressed /\ d.tPress = 0
        THEN [b |-> [d EXCEPT !.tPress = t, !.tRepeat = t], tx |-> << DeltaPacket(dir * 1) >>]
        ELSE IF ~pressed /\ d.tPress # 0
        THEN [b |-> [d EXCEPT !.tPress = 0], tx |-> << >>]
        ELSE IF pressed /\ d.tPress # 0 /\ U32AtLeast(U32Diff(t, d.tPress), FIRST_REPEAT_DELAY_MS)
                /\ U32AtLeast(U32Diff(t, d.tRepeat), REPEAT_RATE_MS)
        THEN [b |-> [d EXCEPT !.tRepeat = t],
              tx |-> << DeltaPacket(dir * accelStep(U32Diff(t, d.tPress))) >>]
        ELSE [b |-> d, tx |-> << >>]

flagReset_NoBand(flag, fsr, thr, buf) == IF fsr <= thr THEN FALSE ELSE flag

\* the flag after the "Flag reset" lines
flagReset(flag, fsr, thr, buf) == IF fsr <= thr - buf THEN FALSE ELSE flag

\* the condition of the "New step detection" ifs
stepTrigger(flag, fsr, thr) == ~flag /\ fsr > thr

refractoryOk_Off(t, lastSent) == t - lastSent >= 0

\* the refractory guard
refractoryOk(t, lastSent) == U32AtLeast(U32Diff(t, lastSent), REFRACTORY_MS)

\* a safety test that never fires
bothPressed_Never(upLevel, downLevel) == FALSE

\* loop()'s safety test on its own two digitalRead: upRaw && downRaw
bothPressed(upLevel, downLevel) == (upLevel = LOW) /\ (downLevel = LOW)

HasStep(tx) == \E i \in 1 .. Len(tx) : tx[i][1] = MSG_STEP

\* one pass of the sensor's loop(): t = millis(); up0/down0 are the two
\* digitalRead of loop(), up1/down1 those of debouncedPressed; rawR/rawL the
\* analogRead of the pass; sumR/sumL the sums sampled by a calibration
sensorLoop(t, up0, down0, up1, down1, rawR, rawL, sumR, sumL) ==
    LET ctl == IF ctrlPending THEN processControl(ctrlPacket, sumR, sumL)
               ELSE [threshold |-> threshold, pressureBuffer |-> pressureBuffer, tx |-> << >>, stall |-> 0]
        thr == ctl.threshold
        buf == ctl.pressureBuffer
        both == bothPressed(up0, down0)
        hu == IF both THEN [b |-> buttonUp, tx |-> << >>] ELSE handleButton(buttonUp, 1, t, up1)
        hd == IF both THEN [b |-> buttonDown, tx |-> << >>] ELSE handleButton(buttonDown, -1, t, down1)
        rightFsr == lowPass(rawR, rState)
        leftFsr == lowPass(rawL, lState)
        rFlag == flagReset(rightFlag, rightFsr, thr, buf)
        lFlag == flagReset(leftFlag, leftFsr, thr, buf)
        trigR == stepTrigger(rFlag, rightFsr, thr)
        trigL == stepTrigger(lFlag, leftFsr, thr)
        stepDetected == trigR \/ trigL
        stepFootId == IF trigL THEN 2 ELSE IF trigR THEN 1 ELSE 0
        triggeredFsr == IF trigL THEN leftFsr ELSE IF trigR THEN rightFsr ELSE 0
        send == stepDetected /\ refractoryOk(t, lastStepSentTime)
        stepTx == IF send THEN << StepPacket(U32Diff(t, lastStepTime), stepFootId) >> ELSE << >>
    IN  /\ sensorClock' = t + ctl.stall
        /\ ctrlPending' = FALSE
        /\ UNCHANGED ctrlPacket
        /\ threshold' = thr
        /\ pressureBuffer' = buf
        /\ buttonUp' = hu.b
        /\ buttonDown' = hd.b
        /\ rState' = rightFsr
        /\ lState' = leftFsr
        /\ rightFlag' = (rFlag \/ trigR)
        /\ leftFlag' = (lFlag \/ trigL)
        /\ lastStepSentTime' = IF send THEN t ELSE lastStepSentTime
        /\ lastStepTime' = IF send THEN t ELSE lastStepTime
        /\ sensorTx' = ctl.tx \o hu.tx \o hd.tx \o stepTx
        /\ sensorSerial' = IF send THEN << Line("", << triggeredFsr >>), Line("sent", << >>) >> ELSE << >>
        /\ sEv' = [kind |-> "poll", t |-> t, calibrated |-> ctrlPending, both |-> (up0 = LOW /\ down0 = LOW),
                   sums |-> IF ctrlPending THEN << sumR, sumL >> ELSE << 0, 0 >>,
                   btnTx |-> [up |-> hu.tx, down |-> hd.tx],
                   fsr |-> (RIGHT :> rightFsr @@ LEFT :> leftFsr),
                   trig |-> (RIGHT :> trigR @@ LEFT :> trigL)]
        /\ dropSeen' = (RIGHT :> (~trigR /\ (dropSeen[RIGHT] \/ rightFsr <= thr - buf))
                        @@ LEFT :> (~trigL /\ (dropSeen[LEFT] \/ leftFsr <= thr - buf)))
        /\ sentAt' = IF HasStep(sensorTx') THEN t ELSE sentAt
        /\ nTrig' = (RIGHT :> (nTrig[RIGHT] + IF trigR THEN 1 ELSE 0)
                     @@ LEFT :> (nTrig[LEFT] + IF trigL THEN 1 ELSE 0))

\* both nodes after setup()
Init == GwInit /\ SensorInit

\* ------------------------------------------------- sensor specification
MaxPoll == 7

\* how many times in a run an input may leave its usual course: a foot's
\* level changes, a pass of loop() is slow, a buffer arrives
MaxSensorEvents == 3

\* millis() between two passes of loop(): the usual period, and a slow pass
SensorDts == << 40, 120 >>

\* analogRead levels: foot off the sensor, foot on it
RawLevels == {0, 4095}

\* sums of the 200 calibration samples of one sensor (averages 100 and 1800)
CalSums == {20000, 360000}

\* full-size control packets the gateway can send, and one of each other shape
SensorRecvBuffers == { ControlPacket(CMD_CAL_WEIGHT, 150), ControlPacket(2, 7),
                       << MSG_CMD, CMD_CAL_WEIGHT, 150 >> }

Flips(rawR, rawL) == (IF rawR # rawLevel[RIGHT] THEN 1 ELSE 0) + (IF rawL # rawLevel[LEFT] THEN 1 ELSE 0)

SensorPoll ==
    /\ nPoll < MaxPoll
    /\ \E dt \in {SensorDts[1], SensorDts[2]}, rawR \in RawLevels, rawL \in RawLevels,
          sumR \in IF ctrlPending THEN CalSums ELSE {0} :
          LET events == Flips(rawR, rawL) + (IF dt = SensorDts[2] THEN 1 ELSE 0)
          IN  /\ nEvents + events <= MaxSensorEvents
              /\ sensorLoop(sensorClock + dt, HIGH, HIGH, HIGH, HIGH, rawR, rawL, sumR, 20000)
              /\ nPoll' = nPoll + 1
              /\ rawLevel' = (RIGHT :> rawR @@ LEFT :> rawL)
              /\ UNCHANGED upPin
              /\ nEvents' = nEvents + events
    /\ UNCHANGED gwVars

SensorRecv ==
    /\ nEvents < MaxSensorEvents
    /\ \E data \in SensorRecvBuffers : sensorOnDataRecv(data)
    /\ nEvents' = nEvents + 1
    /\ UNCHANGED gwVars

SensorNext == SensorPoll \/ SensorRecv

SpecSensor == Init /\ [][SensorNext]_vars

\* -------------------------------------------- StepBuffer specification
\* a StepBuffer driven through its public operations; the result of the last
\* getAverageBPM call is kept in lastCalculatedBPM
MaxAdds == 21

\* how many operations of a run may be other than adding the usual step
MaxVary == 2

\* the k-th usual step: intervals differ from one add to the next
UsualStep(k) == StepEvent(400 + 10 * k, IF k % 2 = 0 THEN RIGHT ELSE LEFT)

\* arguments of trimToSize and of getAverageBPM
TrimSizes == {1, 3}

AvgWindows == {-1, 0, 1, 3, 20}

bufRest == << smoothingWindow, updateStride, sessionStarted, sessionStarting, sessionStartTime,
              stepCounter, lastStepRecvTime, gwShared, gwLocals, gwIo, winCut, handoff, legacy >>

BufAdd ==
    /\ nRecv < MaxAdds
    /\ \E s \in {UsualStep(nRecv)} \cup (IF nVary < MaxVary THEN {StepEvent(0, LEFT)} ELSE {}) :
          /\ stepHistory' = add(stepHistory, s)
          /\ stepLog' = logAdd(stepLog, s)
          /\ nVary' = IF s = UsualStep(nRecv) THEN nVary ELSE nVary + 1
    /\ nRecv' = nRecv + 1
    /\ lastCalculatedBPM' = ZeroBPM
    /\ ev' = [kind |-> "add"]
    /\ UNCHANGED << bufRest, sensorVars >>

BufClear ==
    /\ nVary < MaxVary
    /\ stepHistory' = clear(stepHistory)
    /\ stepLog' = << >>
    /\ nVary' = nVary + 1
    /\ lastCalculatedBPM' = ZeroBPM
    /\ ev' = [kind |-> "clear"]
    /\ UNCHANGED << nRecv, bufRest, sensorVars >>

BufTrim ==
    /\ nVary < MaxVary
    /\ \E newSize \in TrimSizes :
          /\ stepHistory' = trimToSize(stepHistory, newSize)
          /\ stepLog' = logTrim(stepLog, newSize)
          /\ ev' = [kind |-> "trim", newSize |-> newSize]
    /\ nVary' = nVary + 1
    /\ lastCalculatedBPM' = ZeroBPM
    /\ UNCHANGED << nRecv, bufRest, sensorVars >>

BufAvg ==
    /\ \E n \in AvgWindows :
          /\ lastCalculatedBPM' = getAverageBPM(stepHistory, n)
          /\ ev' = [kind |-> "avg", n |-> n]
    /\ UNCHANGED << stepHistory, stepLog, nRecv, nVary, bufRest, sensorVars >>

BufNext == BufAdd \/ BufClear \/ BufTrim \/ BufAvg

SpecBuf == Init /\ [][BufNext]_vars

\* ------------------------------------------------ gateway specification
MaxRecv == 3

\* how many times in a run an input may leave its usual course: the host
\* sends a line, a buffer other than the usual one arrives
MaxGwEvents == 2

MaxNow == 1

\* lines the host sends
HostLines == { T_RESET, T_START \o << "\r" >>,
               T_SET_WINDOW \o << "1" >>, T_SET_WINDOW \o << "2", "1" >>,
               T_SET_STRIDE \o << "2" >>, T_CAL_WEIGHT, << "S", "T", "O", "P" >> }

\* the buffer most arrivals carry: a right-foot step 500 ms after the last
UsualBuffer == StepPacket(500, RIGHT)

\* other buffers: steps, a button tick, calibration replies, an unknown tag,
\* a raw 5-byte StepEvent, and buffers of other lengths
OtherBuffers == { StepPacket(1000, LEFT), StepPacket(0, RIGHT), DeltaPacket(-2),
                  sendControlAck(CMD_CAL_WEIGHT, 1650), sendControlAck(2, -1),
                  << 9, 1, 2, 3, 4, 5 >>,
                  U32Bytes(1000) \o << LEFT >>,
                  << MSG_STEP, 244, 1, 0 >>,
                  StepPacket(500, RIGHT) \o << 0 >> }

GwRecv ==
    /\ nRecv < MaxRecv
    /\ \E data \in {UsualBuffer} \cup OtherBuffers :
          LET usual == data = UsualBuffer /\ ~messageRecv /\ pc \in {"top", "cmds"}
          IN  /\ usual \/ nVary < MaxGwEvents
              /\ onDataRecv(data)
              /\ nVary' = IF usual THEN nVary ELSE nVary + 1
              /\ nRecv' = nRecv + 1
    /\ UNCHANGED << handoff, legacy >>
    /\ UNCHANGED sensorVars

\* a line from the host reaches the receive buffer (read only by the next
\* processSerialCommands)
GwHost ==
    /\ nVary < MaxGwEvents
    /\ pc = "top"
    /\ serialRx = << >>
    /\ \E line \in HostLines : serialRx' = Append(serialRx, line)
    /\ nVary' = nVary + 1
    /\ ev' = [kind |-> "host"]
    /\ serialTx' = << >>
    /\ radioTx' = << >>
    /\ UNCHANGED << gwGlobals, gwShared, gwLocals, stepLog, winCut, nRecv, handoff, legacy >>
    /\ UNCHANGED sensorVars

GwLoopTop == (\E t \in now .. MaxNow : loopTop(t)) /\ UNCHANGED sensorVars

GwCommand == (\E ok \in BOOLEAN : processSerialCommands(ok)) /\ UNCHANGED legacy /\ UNCHANGED sensorVars

GwLoopCheck == loopCheck /\ UNCHANGED sensorVars

GwLoopCopy == loopCopy /\ UNCHANGED << handoff, legacy >> /\ UNCHANGED sensorVars

GwLoopProcess == loopProcess /\ UNCHANGED << handoff, legacy >> /\ UNCHANGED sensorVars

GwNext == GwRecv \/ GwHost \/ GwLoopTop \/ GwCommand \/ GwLoopCheck \/ GwLoopCopy \/ GwLoopProcess

SpecGateway == Init /\ [][GwNext]_vars

\* ------------------------------------------------------- sensor claims
\* --------------------------------------------------- session specification
\* one session as the host drives it: lines START and RESET, and steps that
\* arrive one at a time, each after the loop has taken the one before
MaxSteps == 5

MaxSessLines == 1

SessLines == { T_START, T_RESET }

SessBuffers == { StepPacket(500, RIGHT), StepPacket(1000, LEFT) }

SessStep ==
    /\ nRecv < MaxSteps
    /\ pc = "top"
    /\ ~messageRecv
    /\ \E data \in SessBuffers : onDataRecv(data)
    /\ nRecv' = nRecv + 1
    /\ UNCHANGED << nVary, handoff, legacy >>
    /\ UNCHANGED sensorVars

SessHost ==
    /\ nVary < MaxSessLines
    /\ pc = "top"
    /\ serialRx = << >>
    /\ \E line \in SessLines : serialRx' = << line >>
    /\ nVary' = nVary + 1
    /\ ev' = [kind |-> "host"]
    /\ serialTx' = << >>
    /\ radioTx' = << >>
    /\ UNCHANGED << gwGlobals, gwShared, gwLocals, stepLog, winCut, nRecv, handoff, legacy >>
    /\ UNCHANGED sensorVars

SessNext == SessStep \/ SessHost \/ GwLoopTop \/ GwCommand \/ GwLoopCheck \/ GwLoopCopy \/ GwLoopProcess

SpecSession == Init /\ [][SessNext]_vars

\* ------------------------------------------------- handshake specification
\* sessions one after another: the host's RESET and START lines, one or two
\* at a time and in any order, between steps that arrive one per pass
MaxShakeLines == 3

MaxShakeSteps == 3

ShakeStep ==
    /\ nRecv < MaxShakeSteps
    /\ pc = "top"
    /\ ~messageRecv
    /\ \E data \in SessBuffers : onDataRecv(data)
    /\ nRecv' = nRecv + 1
    /\ UNCHANGED << nVary, handoff, legacy >>
    /\ UNCHANGED sensorVars

ShakeHost ==
    /\ nVary < MaxShakeLines
    /\ pc = "top"
    /\ Len(serialRx) < 2
    /\ \E line \in SessLines : serialRx' = Append(serialRx, line)
    /\ nVary' = nVary + 1
    /\ ev' = [kind |-> "host"]
    /\ serialTx' = << >>
    /\ radioTx' = << >>
    /\ UNCHANGED << gwGlobals, gwShared, gwLocals, stepLog, winCut, nRecv, handoff, legacy >>
    /\ UNCHANGED sensorVars

ShakeNext == ShakeStep \/ ShakeHost \/ GwLoopTop \/ GwCommand \/ GwLoopCheck \/ GwLoopCopy \/ GwLoopProcess

SpecHandshake == Init /\ [][ShakeNext]_vars

\* ----------------------------------------------------- codec specification
\* one Control packet sent from boot, in either direction, and its delivery
\* to the other node's receive callback
Int16 == -32768 .. 32767

CodecGwSend ==
    /\ ev.kind = "boot"
    /\ sEv.kind = "boot"
    /\ \E arg \in Int16 :
          /\ sendControl(CMD_CAL_WEIGHT, arg, TRUE)
          /\ ev' = [kind |-> "ctrl", cmd |-> CMD_CAL_WEIGHT, arg |-> arg]
    /\ serialTx' = << >>
    /\ UNCHANGED << gwGlobals, gwShared, gwLocals, serialRx, stepLog, winCut, nRecv, nVary, handoff, legacy >>
    /\ UNCHANGED sensorVars

CodecSensorRecv ==
    /\ ev.kind = "ctrl"
    /\ sEv.kind = "boot"
    /\ sensorOnDataRecv(radioTx[1])
    /\ UNCHANGED nEvents
    /\ UNCHANGED gwVars

CodecSensorSend ==
    /\ ev.kind = "boot"
    /\ sEv.kind = "boot"
    /\ \E arg \in Int16 :
          /\ sensorTx' = << sendControlAck(CMD_CAL_WEIGHT, arg) >>
          /\ sEv' = [kind |-> "ack", cmd |-> CMD_CAL_WEIGHT, arg |-> arg]
    /\ sensorSerial' = << >>
    /\ UNCHANGED << threshold, pressureBuffer, lastStepTime, lastStepSentTime, leftFlag, rightFlag,
                    ctrlPending, ctrlPacket, buttonUp, buttonDown, rState, lState, sensorClock,
                    dropSeen, sentAt, nTrig, nPoll, rawLevel, upPin, nEvents >>
    /\ UNCHANGED gwVars

CodecGwRecv ==
    /\ sEv.kind = "ack"
    /\ ev.kind = "boot"
    /\ onDataRecv(sensorTx[1])
    /\ UNCHANGED << nRecv, nVary, handoff, legacy >>
    /\ UNCHANGED sensorVars

CodecNext == CodecGwSend \/ CodecSensorRecv \/ CodecSensorSend \/ CodecGwRecv

SpecCodec == Init /\ [][CodecNext]_vars

\* --------------------------------------------- configuration specification
\* the host's configuration and calibration lines, between steps that arrive
\* one at a time
MaxCfgLines == 2

MaxCfgSteps == 2

WinLine(arg) == T_SET_WINDOW \o arg

StrideLine(arg) == T_SET_STRIDE \o arg

CalLine(arg) == T_CAL_WEIGHT \o arg

CfgLines == { WinLine(<< "1" >>), WinLine(<< "5" >>), WinLine(<< "0" >>), WinLine(<< "2", "1" >>),
              WinLine(<< "-", "3" >>), WinLine(<< "x" >>), WinLine(<< >>),
              StrideLine(<< "2" >>), StrideLine(<< "4" >>), StrideLine(<< "0" >>),
              StrideLine(<< "-", "1" >>), StrideLine(<< "x" >>), StrideLine(<< >>),
              CalLine(<< >>), CalLine(<< ",", "2", "0", "0" >>), CalLine(<< ",", "0" >>),
              CalLine(<< ",", "-", "5" >>) }

CfgStep ==
    /\ nRecv < MaxCfgSteps
    /\ pc = "top"
    /\ ~messageRecv
    /\ onDataRecv(UsualBuffer)
    /\ nRecv' = nRecv + 1
    /\ UNCHANGED << nVary, handoff, legacy >>
    /\ UNCHANGED sensorVars

CfgHost ==
    /\ nVary < MaxCfgLines
    /\ pc = "top"
    /\ serialRx = << >>
    /\ \E line \in CfgLines : serialRx' = << line >>
    /\ nVary' = nVary + 1
    /\ ev' = [kind |-> "host"]
    /\ serialTx' = << >>
    /\ radioTx' = << >>
    /\ UNCHANGED << gwGlobals, gwShared, gwLocals, stepLog, winCut, nRecv, handoff, legacy >>
    /\ UNCHANGED sensorVars

CfgNext == CfgStep \/ CfgHost \/ GwLoopTop \/ GwCommand \/ GwLoopCheck \/ GwLoopCopy \/ GwLoopProcess

SpecConfig == Init /\ [][CfgNext]_vars

\* ----------------------------------------------- calibration specification
\* control packets reach the sensor, its loop answers them, and the answer
\* reaches the gateway's receive callback
MaxCalPolls == 2

\* args of the CalibrateWeight packets, and a packet with another cmd
CalArgs == {-32768, -1, 0, 1, 150, 2000, 32767}

CalBuffers == { ControlPacket(CMD_CAL_WEIGHT, a) : a \in CalArgs } \cup { ControlPacket(2, 7) }

\* sums of the 200 samples of the right and the left sensor
CalSumPairs == { << 360000, 20000 >>, << 20000, 360000 >>, << 0, 0 >>,
                 << 819000, 819000 >>, << 360199, 200 >> }

CalRecv ==
    /\ nPoll < MaxCalPolls
    /\ ~ctrlPending
    /\ \E data \in CalBuffers : sensorOnDataRecv(data)
    /\ UNCHANGED nEvents
    /\ UNCHANGED gwVars

CalPoll ==
    /\ nPoll < MaxCalPolls
    /\ ctrlPending
    /\ \E sums \in CalSumPairs :
          sensorLoop(sensorClock + SensorDts[1], HIGH, HIGH, HIGH, HIGH, 0, 0, sums[1], sums[2])
    /\ nPoll' = nPoll + 1
    /\ UNCHANGED << rawLevel, upPin, nEvents >>
    /\ UNCHANGED gwVars

CalDeliver ==
    /\ sEv.kind = "poll"
    /\ sensorTx # << >>
    /\ nRecv < nPoll
    /\ onDataRecv(sensorTx[1])
    /\ nRecv' = nPoll
    /\ UNCHANGED << nVary, handoff, legacy >>
    /\ UNCHANGED sensorVars

CalNext == CalRecv \/ CalPoll \/ CalDeliver

SpecCal == Init /\ [][CalNext]_vars

\* --------------------------------------------------- handoff specification
\* the gateway's loop() with buffers arriving between any two of its steps
MaxArrivals == 3

\* two steps, two button ticks, a raw 5-byte StepEvent and a short buffer
HandoffBuffers == { StepPacket(500, RIGHT), StepPacket(1000, LEFT), DeltaPacket(-2), DeltaPacket(1),
                    U32Bytes(700) \o << LEFT >>, << MSG_STEP, 244, 1, 0 >> }

\* the callback stores a buffer as a step or a tick
Taken(data) ==
    \/ Len(data) = SizeofPacket /\ data[1] \in {MSG_STEP, MSG_BPM_DELTA}
    \/ Len(data) = SizeofStepEvent

\* the type and payload a taken buffer carries, by the packed layout
Carried(data) ==
    IF Len(data) = SizeofStepEvent
    THEN [type |-> MSG_STEP, step |-> StepEvent(U32FromBytes(data, 1), data[5])]
    ELSE IF data[1] = MSG_STEP
    THEN [type |-> MSG_STEP, step |-> StepEvent(U32FromBytes(data, 2), data[6])]
    ELSE [type |-> MSG_BPM_DELTA, delta |-> I8FromBytes(data, 2)]

HandoffRecv ==
    /\ UNCHANGED legacy
    /\ nRecv < MaxArrivals
    /\ \E data \in HandoffBuffers :
          /\ onDataRecv(data)
          /\ handoff' = IF Taken(data) THEN [handoff EXCEPT !.arrived = Append(@, data)] ELSE handoff
    /\ nRecv' = nRecv + 1
    /\ UNCHANGED nVary
    /\ UNCHANGED sensorVars

HandoffCopy ==
    /\ UNCHANGED legacy
    /\ loopCopy
    /\ handoff' = [handoff EXCEPT !.copied = Len(handoff.arrived)]
    /\ UNCHANGED sensorVars

HandoffProcess ==
    /\ UNCHANGED legacy
    /\ loopProcess
    /\ handoff' = [handoff EXCEPT !.reported = Append(@, serialTx'[1])]
    /\ UNCHANGED sensorVars

HandoffNext == HandoffRecv \/ GwLoopTop \/ GwLoopCheck \/ HandoffCopy \/ HandoffProcess

SpecHandoff == Init /\ [][HandoffNext]_vars

\* ------------------------------------------------------ tick specification
\* button ticks and steps arriving at any point of loop(), around a RESET and
\* a START from the host
MaxTickLines == 2

MaxTickRecv == 3

TickBuffers == { StepPacket(500, RIGHT), DeltaPacket(-2), DeltaPacket(5) }

TickRecv ==
    /\ nRecv < MaxTickRecv
    /\ \E data \in TickBuffers : onDataRecv(data)
    /\ nRecv' = nRecv + 1
    /\ UNCHANGED << nVary, handoff, legacy >>
    /\ UNCHANGED sensorVars

TickHost ==
    /\ nVary < MaxTickLines
    /\ pc = "top"
    /\ serialRx = << >>
    /\ \E line \in SessLines : serialRx' = << line >>
    /\ nVary' = nVary + 1
    /\ ev' = [kind |-> "host"]
    /\ serialTx' = << >>
    /\ radioTx' = << >>
    /\ UNCHANGED << gwGlobals, gwShared, gwLocals, stepLog, winCut, nRecv, handoff, legacy >>
    /\ UNCHANGED sensorVars

TickNext == TickRecv \/ TickHost \/ GwLoopTop \/ GwCommand \/ GwLoopCheck \/ GwLoopCopy \/ GwLoopProcess

SpecTick == Init /\ [][TickNext]_vars

\* ---------------------------------------------------- stream specification
\* what reaches the host call by call: loop() writes its lines with several
\* Serial.print, and the callback may run between any two of them
MaxStreamRecv == 3

\* one Serial.print or println: who called it, what it wrote, and whether it
\* ended the line
Piece(by, text, eol) == [by |-> by, text |-> text, eol |-> eol]

\* the calls that write a step line: now, foot, instantBPM, bpm, three ", "
stepWrites(by, l) ==
    << Piece(by, l.val[1], FALSE), Piece(by, ", ", FALSE), Piece(by, l.val[2], FALSE), Piece(by, ", ", FALSE),
       Piece(by, l.val[3], FALSE), Piece(by, ", ", FALSE), Piece(by, l.val[4], TRUE) >>

\* the calls that write a line of a text and at most one number
tagWrites(by, l) ==
    IF l.val = << >> THEN << Piece(by, l.tag, TRUE) >>
    ELSE << Piece(by, l.tag, FALSE), Piece(by, l.val[1], TRUE) >>

Writes(by, l) == IF l.tag = "STEP" THEN stepWrites(by, l) ELSE tagWrites(by, l)

\* a step, a button tick, and the two calibration replies
StreamBuffers == { UsualBuffer, DeltaPacket(-2), sendControlAck(CMD_CAL_WEIGHT, 1650),
                   sendControlAck(CMD_CAL_WEIGHT, -1) }

\* the callback, at any point of loop(): what it writes, it writes at once
StreamRecv ==
    /\ UNCHANGED legacy
    /\ nRecv < MaxStreamRecv
    /\ \E data \in StreamBuffers : onDataRecv(data)
    /\ handoff' = [handoff EXCEPT !.reported =
                      @ \o (IF serialTx' = << >> THEN << >> ELSE Writes("onDataRecv", serialTx'[1]))]
    /\ nRecv' = nRecv + 1
    /\ UNCHANGED nVary
    /\ UNCHANGED sensorVars

StreamTop == handoff.writing = << >> /\ GwLoopTop

\* the if (messageRecv) block up to its first Serial.print
StreamProcess ==
    /\ UNCHANGED legacy
    /\ loopProcess
    /\ handoff' = [handoff EXCEPT !.writing = Writes("loop", serialTx'[1])]
    /\ UNCHANGED sensorVars

\* the next Serial.print of the line
StreamWrite ==
    /\ UNCHANGED legacy
    /\ handoff.writing # << >>
    /\ handoff' = [handoff EXCEPT !.reported = Append(@, Head(handoff.writing)), !.writing = Tail(@)]
    /\ UNCHANGED << gwGlobals, gwShared, gwLocals, gwIo, ev, stepLog, winCut, nRecv, nVary >>
    /\ UNCHANGED sensorVars

StreamNext == StreamRecv \/ StreamTop \/ GwLoopCheck \/ GwLoopCopy \/ StreamProcess \/ StreamWrite

SpecStream == Init /\ [][StreamNext]_vars

\* -------------------------------------------------- dispatch specification
\* both nodes, booted together so that their millis() agree: the host's
\* CAL_WEIGHT requests, the radio in both directions, and the callback free to
\* run between the two println of a request
MaxDispatch == 2

\* the requests in the order the host sends them, with their margins
DispatchLines == << CalLine(<< >>), CalLine(<< ",", "2", "0", "0" >>), CalLine(<< ",", "2", "5", "0" >>) >>

DispatchMargins == << 150, 200, 250 >>

\* the sums of the 200 samples of every calibration (averages 1800 and 100)
DispatchSums == << 360000, 20000 >>

\* the longest the gateway is taken to spend between handing the packet to
\* the radio and its println of DISPATCHED: anything short of a calibration
DispatchGapMs == CalSamples * CalDelayMs - 1

Kept(lines) == [handoff EXCEPT !.reported = @ \o lines]

\* the packets the sensor sent at time t
SentAt(packets, t) == [i \in 1 .. Len(packets) |-> [data |-> packets[i], at |-> t]]

DispatchHost ==
    /\ nVary < MaxDispatch
    /\ nVary < Len(DispatchLines)
    /\ pc = "top"
    /\ serialRx = << >>
    /\ serialRx' = << DispatchLines[nVary + 1] >>
    /\ nVary' = nVary + 1
    /\ ev' = [kind |-> "host"]
    /\ serialTx' = << >>
    /\ radioTx' = << >>
    /\ UNCHANGED << gwGlobals, gwShared, gwLocals, stepLog, winCut, nRecv, handoff, legacy >>
    /\ UNCHANGED sensorVars

\* a pass of the gateway's loop() begins, at once or when the sensor's last
\* pass has ended
DispatchTop ==
    /\ \E t \in {now, Max(now, sensorClock)} : loopTop(t)
    /\ UNCHANGED sensorVars

DispatchSend ==
    /\ UNCHANGED legacy
    /\ \E ok \in BOOLEAN : dispatchSend(ok)
    /\ handoff' = [Kept(serialTx') EXCEPT !.air.sensor = @ \o radioTx']
    /\ UNCHANGED << nRecv, nVary >>
    /\ UNCHANGED sensorVars

DispatchPrint ==
    /\ UNCHANGED legacy
    /\ dispatchPrint
    /\ handoff' = Kept(serialTx')
    /\ UNCHANGED << nRecv, nVary >>
    /\ UNCHANGED sensorVars

\* a packet of the gateway reaches the sensor's callback, at any time after
\* it was sent
DispatchRadio ==
    /\ UNCHANGED legacy
    /\ handoff.air.sensor # << >>
    /\ sensorOnDataRecv(Head(handoff.air.sensor))
    /\ handoff' = [handoff EXCEPT !.air.sensor = Tail(@)]
    /\ UNCHANGED nEvents
    /\ UNCHANGED << gwGlobals, gwShared, gwLocals, gwIo, ev, stepLog, winCut, nRecv, nVary >>

\* the pass of the sensor's loop() that finds the packet pending: no earlier
\* than the gateway pass that sent it
DispatchPoll ==
    /\ UNCHANGED legacy
    /\ ctrlPending
    /\ \E dt \in {0, SensorDts[1]} :
          sensorLoop(Max(sensorClock, now) + dt, HIGH, HIGH, HIGH, HIGH, 0, 0, DispatchSums[1], DispatchSums[2])
    /\ handoff' = [handoff EXCEPT !.air.gateway = @ \o SentAt(sensorTx', sensorClock')]
    /\ nPoll' = nPoll + 1
    /\ UNCHANGED << rawLevel, upPin, nEvents >>
    /\ UNCHANGED << gwGlobals, gwShared, gwLocals, gwIo, ev, stepLog, winCut, nRecv, nVary >>

\* the sensor's reply reaches the gateway's callback: at any later point of
\* loop(), and between the two println only if it was sent by then
DispatchDeliver ==
    /\ UNCHANGED legacy
    /\ handoff.air.gateway # << >>
    /\ (pc = "cal") => (Head(handoff.air.gateway).at <= now + DispatchGapMs)
    /\ onDataRecv(Head(handoff.air.gateway).data)
    /\ handoff' = [Kept(serialTx') EXCEPT !.air.gateway = Tail(@)]
    /\ nRecv' = nRecv + 1
    /\ UNCHANGED nVary
    /\ UNCHANGED sensorVars

DispatchNext ==
    \/ DispatchHost \/ DispatchTop \/ DispatchSend \/ DispatchPrint \/ GwLoopCheck
    \/ DispatchRadio \/ DispatchPoll \/ DispatchDeliver

SpecDispatch == Init /\ [][DispatchNext]_vars

\* ---------------------------------------------- linked-list specification
\* the gateway and the linked-list gateway it supersedes read the same host
\* lines and are handed the same steps, pass by pass
MaxLegacyLines == 2

MaxLegacySteps == 3

LegacyLines == { T_START, T_RESET, WinLine(<< "1" >>), WinLine(<< "3" >>), StrideLine(<< "2" >>) }

LegacyBuffers == { StepPacket(500, RIGHT), StepPacket(1000, LEFT) }

\* one turn of the while (Serial.available()) loop of the linked-list loop()
legacyCommand(g, command, t) ==
    IF command = T_RESET THEN [g EXCEPT !.sessionStarting = TRUE]
    ELSE IF command = T_START /\ g.sessionStarting
    THEN [g EXCEPT !.stepHistory = clearList(@), !.sessionStarting = FALSE, !.sessionStarted = TRUE,
                   !.sessionStartTime = t, !.stepCounter = 0, !.lastCalculatedBPM = ZeroBPM]
    ELSE IF startsWith(command, T_SET_WINDOW)
    THEN LET commaIndex == indexOf(command, ",")
             val == toInt(substring(command, commaIndex + 1))
         IN  IF commaIndex # -1 /\ val > 0 /\ val <= 20
             THEN [g EXCEPT !.smoothingWindow = val,
                            !.updateStride = IF @ > val THEN val ELSE @,
                            !.stepHistory = trimList(@, val)]
             ELSE g
    ELSE IF startsWith(command, T_SET_STRIDE)
    THEN LET commaIndex == indexOf(command, ",")
             val == toInt(substring(command, commaIndex + 1))
         IN  IF commaIndex # -1 /\ val > 0 /\ val <= g.smoothingWindow
             THEN [g EXCEPT !.updateStride = val]
             ELSE g
    ELSE g

\* the if (messageRecv) block of the linked-list loop() for the step s
legacyStep(g, s, t) ==
    IF g.sessionStarted
    THEN [g EXCEPT !.sessionStarted = FALSE, !.lastStepRecvTime = t,
                   !.line = StepLine(t, s.footId, instantBPM(0), ZeroBPM)]
    ELSE LET added == addNode(g.stepHistory, s)
             hist == IF added.listSize > g.smoothingWindow THEN deleteLastNode(added) ELSE added
             bpm == IF (g.stepCounter + 1) % g.updateStride = 0 THEN calculateAverageBPM(hist)
                    ELSE g.lastCalculatedBPM
         IN  [g EXCEPT !.lastStepRecvTime = t, !.stepHistory = hist, !.stepCounter = @ + 1,
                       !.lastCalculatedBPM = bpm,
                       !.line = StepLine(t, s.footId, instantBPM(s.intervalMS), bpm)]

\* a step arrives at both gateways
LegacyRecv ==
    /\ nRecv < MaxLegacySteps
    /\ \E data \in LegacyBuffers : onDataRecv(data)
    /\ nRecv' = nRecv + 1
    /\ UNCHANGED << nVary, handoff, legacy >>
    /\ UNCHANGED sensorVars

\* the host sends a line to both gateways
LegacyHost ==
    /\ nVary < MaxLegacyLines
    /\ pc = "top"
    /\ serialRx = << >>
    /\ \E line \in LegacyLines : serialRx' = << line >>
    /\ nVary' = nVary + 1
    /\ ev' = [kind |-> "host"]
    /\ serialTx' = << >>
    /\ radioTx' = << >>
    /\ UNCHANGED << gwGlobals, gwShared, gwLocals, stepLog, winCut, nRecv, handoff, legacy >>
    /\ UNCHANGED sensorVars

\* both gateways take the line; widened records a SET_WINDOW that raises the
\* window while the buffer holds more steps than the old window, until the
\* next START that is honoured
LegacyCommand ==
    /\ \E ok \in BOOLEAN : processSerialCommands(ok)
    /\ LET command == trim(Head(serialRx))
           g == legacyCommand(legacy, command, now)
       IN  legacy' = [g EXCEPT !.widened =
                         IF command = T_START /\ sessionStarting THEN FALSE
                         ELSE IF smoothingWindow' > smoothingWindow /\ stepHistory.count > smoothingWindow
                              THEN TRUE
                              ELSE @]
    /\ UNCHANGED sensorVars

\* both gateways take the step
LegacyProcess ==
    /\ loopProcess
    /\ legacy' = legacyStep(legacy, stepCopy, now)
    /\ UNCHANGED handoff
    /\ UNCHANGED sensorVars

LegacyNext ==
    LegacyRecv \/ LegacyHost \/ GwLoopTop \/ LegacyCommand \/ GwLoopCheck \/ GwLoopCopy \/ LegacyProcess

SpecLegacy == Init /\ [][LegacyNext]_vars

\* ---------------------------------------------------- button specification
\* the sensor's loop() with its two buttons driven and both feet off the
\* sensors; a run may first let the node idle until millis() is about to wrap
MaxButtonPolls == 7

\* how often in a run an input may leave its usual course: a button's level
\* changes, the two digitalRead of one pass disagree, a pass comes late
MaxButtonEvents == 3

\* millis() between two passes of loop(): the usual period, then late passes
ButtonDts == << 30, 200, 1000, 1500 >>

\* how long before millis() wraps the idle period ends
UptimeLeads == {60}

\* a Button no press has reached: only lastRaw = stable = HIGH and tPress = 0
\* matter to debouncedPressed and handleButton then
Idle(b) == b.stable = HIGH /\ b.lastRaw = HIGH /\ b.tPress = 0

Differ(a, b) == IF a # b THEN 1 ELSE 0

ButtonPoll ==
    /\ nPoll < MaxButtonPolls
    /\ \E i \in 1 .. Len(ButtonDts), up0 \in BOOLEAN, down0 \in BOOLEAN, up1 \in BOOLEAN, down1 \in BOOLEAN :
          LET events == Differ(up1, buttonUp.lastRaw) + Differ(down1, buttonDown.lastRaw)
                        + Differ(up0, up1) + Differ(down0, down1) + Differ(i, 1)
          IN  /\ nEvents + events <= MaxButtonEvents
              /\ sensorLoop(sensorClock + ButtonDts[i], up0, down0, up1, down1, 0, 0, 0, 0)
              /\ nPoll' = nPoll + 1
              /\ nEvents' = nEvents + events
    /\ UNCHANGED << rawLevel, upPin >>
    /\ UNCHANGED gwVars

\* the passes of loop() from boot, all with both buttons released, both feet
\* off and nothing received, up to the pass at 2^32 - lead ms: each leaves
\* every variable but the clock as it was, so the last one stands for them all
ButtonUptime ==
    /\ nPoll = 0
    /\ sensorClock = 0
    /\ ~ctrlPending
    /\ Idle(buttonUp) /\ Idle(buttonDown)
    /\ \E lead \in UptimeLeads : sensorLoop(0 - lead, HIGH, HIGH, HIGH, HIGH, 0, 0, 0, 0)
    /\ UNCHANGED << nPoll, nEvents, rawLevel, upPin >>
    /\ UNCHANGED gwVars

ButtonNext == ButtonPoll \/ ButtonUptime

SpecButton == Init /\ [][ButtonNext]_vars

\* -------------------------------------------------- debounce specification
\* the Up button's pin as a signal in time, sampled by passes of loop() that
\* follow each other closely; a calibration request may arrive in between
MaxDebouncePolls == 5

\* how often in a run the pin changes level or a request arrives
MaxDebounceEvents == 3

\* millis() at the start of a pass, counted from the end of the pass before
DebounceGaps == << 1, 10 >>

\* how long before it is read in a pass the pin took the level read
FlipAges == << 1, 5 >>

DebounceRecv ==
    /\ nEvents < MaxDebounceEvents
    /\ nPoll < MaxDebouncePolls
    /\ ~ctrlPending
    /\ sensorOnDataRecv(ControlPacket(CMD_CAL_WEIGHT, 150))
    /\ nEvents' = nEvents + 1
    /\ UNCHANGED gwVars

\* a pass of loop(): the pin is read where the pass ends (a calibration, when
\* one is pending, comes before the reads), having changed level since the
\* pass before read it or not
DebouncePoll ==
    /\ nPoll < MaxDebouncePolls
    /\ \E i \in 1 .. Len(DebounceGaps), flip \in BOOLEAN, a \in 1 .. Len(FlipAges) :
          LET level == IF flip THEN ~upPin.level ELSE upPin.level
          IN  /\ flip => nEvents < MaxDebounceEvents
              /\ ~flip => a = 1
              /\ sensorLoop(sensorClock + DebounceGaps[i], level, HIGH, level, HIGH, 0, 0, 360000, 20000)
              /\ flip => sensorClock' - FlipAges[a] >= sensorClock
              /\ upPin' = IF flip THEN [level |-> level, since |-> sensorClock' - FlipAges[a]] ELSE upPin
              /\ nEvents' = nEvents + Differ(flip, FALSE)
    /\ nPoll' = nPoll + 1
    /\ UNCHANGED rawLevel
    /\ UNCHANGED gwVars

DebounceNext == DebouncePoll \/ DebounceRecv

SpecDebounce == Init /\ [][DebounceNext]_vars

\* ---------------------------------------------------- tuning specification
\* the whole sensor node: feet, buttons and arriving buffers together
MaxTunePolls == 5

\* how often in a run an input may leave its usual course: a foot's or a
\* button's level changes, a pass of loop() is slow, a buffer arrives
MaxTuneEvents == 3

\* control packets with and without the calibration cmd, full-size packets of
\* the other two types, and control buffers that are too short and too long
TuneBuffers == { ControlPacket(CMD_CAL_WEIGHT, 150), ControlPacket(CMD_CAL_WEIGHT, 0), ControlPacket(2, 7),
                 StepPacket(500, RIGHT), DeltaPacket(1),
                 << MSG_CMD, CMD_CAL_WEIGHT, 150 >>, ControlPacket(CMD_CAL_WEIGHT, 150) \o << 0 >> }

TunePoll ==
    /\ nPoll < MaxTunePolls
    /\ \E dt \in {SensorDts[1], SensorDts[2]}, rawR \in RawLevels, rawL \in RawLevels,
          up \in BOOLEAN, down \in BOOLEAN, sumR \in IF ctrlPending THEN CalSums ELSE {0} :
          LET events == Flips(rawR, rawL) + Differ(up, buttonUp.lastRaw) + Differ(down, buttonDown.lastRaw)
                        + (IF dt = SensorDts[2] THEN 1 ELSE 0)
          IN  /\ nEvents + events <= MaxTuneEvents
              /\ sensorLoop(sensorClock + dt, up, down, up, down, rawR, rawL, sumR, 20000)
              /\ nPoll' = nPoll + 1
              /\ rawLevel' = (RIGHT :> rawR @@ LEFT :> rawL)
              /\ UNCHANGED upPin
              /\ nEvents' = nEvents + events
    /\ UNCHANGED gwVars

TuneRecv ==
    /\ nEvents < MaxTuneEvents
    /\ \E data \in TuneBuffers : sensorOnDataRecv(data)
    /\ nEvents' = nEvents + 1
    /\ UNCHANGED gwVars

TuneNext == TunePoll \/ TuneRecv

SpecTuning == Init /\ [][TuneNext]_vars

\* ------------------------------------------------------------ sensor claims
flagOf(f) == IF f = RIGHT THEN rightFlag ELSE leftFlag

\* C1: a foot triggers only in a poll that finds its contact flag false and
\* its filtered value above the threshold, and only if, since it last
\* triggered (or since start), some poll saw its filtered value at or below
\* threshold - pressureBuffer
C1_Hysteresis ==
    [][\A f \in {RIGHT, LEFT} :
          (sEv'.kind = "poll" /\ sEv'.trig[f])
             => (~flagOf(f) /\ sEv'.fsr[f] > threshold' /\ dropSeen[f])]_vars

\* a foot has triggered, dropped and triggered again
C1_Witness == sEv.kind = "poll" /\ sEv.trig[RIGHT] /\ nTrig[RIGHT] >= 2

IsStepPacket(p) == p[1] = MSG_STEP

StepPackets(tx) == SelectSeq(tx, IsStepPacket)

\* C19 (as stated): a poll in which both feet trigger sends two step events,
\* the right foot's first and the left foot's second
C19_BothFeet ==
    (sEv.kind = "poll" /\ sEv.trig[RIGHT] /\ sEv.trig[LEFT] /\ HasStep(sensorTx)) =>
        /\ Len(StepPackets(sensorTx)) = 2
        /\ StepPackets(sensorTx)[1][6] = RIGHT
        /\ StepPackets(sensorTx)[2][6] = LEFT

\* C20 (as stated): a Step packet carries the time elapsed since the Step
\* packet sent before it, for whichever foot, and the first one carries 0
C20_Interval ==
    [][(sEv'.kind = "poll" /\ HasStep(sensorTx')) =>
          U32FromBytes(StepPackets(sensorTx')[1], 2) = IF sentAt = -1 THEN 0 ELSE sEv'.t - sentAt]_vars

\* ------------------------------------------------------ StepBuffer claims
RECURSIVE SumIntervals(_)
SumIntervals(l) == IF l = << >> THEN 0 ELSE Head(l).intervalMS + SumIntervals(Tail(l))

\* the m most recently added of the steps in l
LastSteps(l, m) == SubSeq(l, Len(l) - m + 1, Len(l))

Averaged(l, w) == LastSteps(l, Min(w, Len(l)))

\* the average BPM field of the STEP line just written, in hundredths
PrintedAvg == serialTx[1].val[4]

\* C4 (as stated): on a recompute step whose averaged intervals sum to 0 the
\* gateway reports the BPM cached before the step and the cache keeps it
C4_CachedOnZeroSum ==
    [][(ev'.kind = "step" /\ ev'.recompute
            /\ SumIntervals(Averaged(stepLog', smoothingWindow)) = 0)
        => /\ lastCalculatedBPM' = lastCalculatedBPM
           /\ serialTx'[1].val[4] = PrintFloat2(lastCalculatedBPM)]_vars

\* C5: after an accepted SET_WINDOW,w that found more than w steps in the
\* history, every average computed while that window stands is the average of
\* the most recent steps, at most w of them
C5_WindowBound ==
    (ev.kind = "step" /\ ev.recompute /\ winCut > 0) =>
        /\ winCut = smoothingWindow
        /\ LET used == Averaged(stepLog, winCut)
               sum == SumIntervals(used)
           IN  /\ Len(used) <= winCut
               /\ sum > 0 => lastCalculatedBPM.num * sum = 60000 * Len(used) * lastCalculatedBPM.den

\* a recompute over one step while the history again holds more than one
C5_Witness ==
    /\ ev.kind = "step"
    /\ ev.recompute
    /\ winCut = 1
    /\ stepHistory.count > 1
    /\ lastCalculatedBPM # ZeroBPM

\* C6: a START taken while sessionStarting is false writes nothing to the
\* host and leaves history, stepCounter, cached BPM, sessionStarted,
\* sessionStarting, window and stride as they were
C6_StartIgnored ==
    [][(ev'.kind = "cmd" /\ ev'.command = T_START /\ ~sessionStarting)
        => /\ serialTx' = << >>
           /\ radioTx' = << >>
           /\ UNCHANGED << stepHistory, stepLog, stepCounter, lastCalculatedBPM, sessionStarted,
                           sessionStarting, smoothingWindow, updateStride >>]_vars

\* a START ignored after steps have been counted
C6_Witness ==
    /\ ev.kind = "cmd"
    /\ ev.command = T_START
    /\ ~sessionStarting
    /\ serialTx = << >>
    /\ stepCounter > 0

\* C7: an honoured START sets sessionStarted; the next step the loop takes is
\* then printed with instant and average BPM 0 whatever its interval, is not
\* added to the history, leaves stepCounter alone and clears sessionStarted;
\* sessionStarted changes in no other way, so one step per START is consumed
C7_SeedStep ==
    [][/\ (pc = "process" /\ pc' = "top" /\ type = MSG_STEP /\ sessionStarted)
            => /\ Len(serialTx') = 1
               /\ serialTx'[1].val[3] = 0
               /\ serialTx'[1].val[4] = 0
               /\ UNCHANGED << stepHistory, stepLog, stepCounter, lastCalculatedBPM >>
               /\ ~sessionStarted'
       /\ (pc = "process" /\ pc' = "top" /\ type = MSG_STEP /\ ~sessionStarted)
            => /\ stepHistory' = add(stepHistory, stepCopy)
               /\ stepCounter' = stepCounter + 1
       /\ (ev'.kind = "cmd" /\ ev'.command = T_START /\ sessionStarting) => sessionStarted'
       /\ (sessionStarted' /\ ~sessionStarted)
            => (ev'.kind = "cmd" /\ ev'.command = T_START /\ sessionStarting)
       /\ (sessionStarted /\ ~sessionStarted') => ev'.kind = "seed"]_vars

\* the seed step of a session, taken from a packet with a non-zero interval
C7_Witness ==
    /\ ev.kind = "seed"
    /\ ~sessionStarting
    /\ currentStep.intervalMS > 0
    /\ stepCounter = 0
    /\ stepHistory.count = 0
    /\ serialTx[1].val[3] = 0
    /\ PrintedAvg = 0

\* what C9 asks of a buffer the callback leaves alone
Ignored == /\ UNCHANGED << currentStep, lastDelta, lastMsgType, messageRecv >>
           /\ serialTx' = << >>

\* C9 (as stated): a buffer whose length differs from sizeof(Packet) is ignored
C9_WrongLengthIgnored ==
    [][(ev'.kind = "recv" /\ Len(ev'.data) # SizeofPacket) => Ignored]_vars

\* C9 (amended): a buffer whose length is neither sizeof(Packet) nor
\* sizeof(StepEvent) is ignored; one of sizeof(StepEvent) bytes is taken whole
\* as a raw StepEvent
C9_OtherLengthsIgnored ==
    [][/\ (ev'.kind = "recv" /\ Len(ev'.data) \notin {6, 5}) => Ignored
       /\ (ev'.kind = "recv" /\ Len(ev'.data) = 5)
            => /\ currentStep' = StepEvent(U32FromBytes(ev'.data, 1), ev'.data[5])
               /\ lastMsgType' = MSG_STEP
               /\ messageRecv'
               /\ lastDelta' = lastDelta
               /\ serialTx' = << >>]_vars

\* a 7-byte buffer ignored while a step waits for the loop
C9_Witness ==
    /\ ev.kind = "recv"
    /\ Len(ev.data) = 7
    /\ messageRecv
    /\ currentStep = StepEvent(500, RIGHT)

\* C28: a buffer of sizeof(Packet) bytes whose tag is none of Step, TempoDelta
\* and Control leaves currentStep, lastDelta, lastMsgType and messageRecv as
\* they were and writes nothing to the host
C28_UnknownTag ==
    [][(/\ ev'.kind = "recv"
        /\ Len(ev'.data) = SizeofPacket
        /\ ev'.data[1] \notin {MSG_STEP, MSG_BPM_DELTA, MSG_CMD}) => Ignored]_vars

\* a buffer tagged 9 dropped while a step waits for the loop
C28_Witness ==
    /\ ev.kind = "recv"
    /\ Len(ev.data) = SizeofPacket
    /\ ev.data[1] = 9
    /\ messageRecv
    /\ lastMsgType = MSG_STEP
    /\ currentStep = StepEvent(500, RIGHT)
    /\ serialTx = << >>

\* C12: a step fed to the estimator increments the step counter; when the
\* new count is not a multiple of updateStride the line carries the BPM cached
\* before the step and the cache is unchanged; when it is, the average is
\* computed afresh over the window
C12_Stride ==
    [][ev'.kind = "step" =>
          /\ stepCounter' = stepCounter + 1
          /\ (stepCounter' % updateStride # 0) =>
                /\ lastCalculatedBPM' = lastCalculatedBPM
                /\ serialTx'[1].val[4] = PrintFloat2(lastCalculatedBPM)
          /\ (stepCounter' % updateStride = 0) =>
                LET used == Averaged(stepLog', smoothingWindow)
                    sum == SumIntervals(used)
                IN  /\ sum > 0 => lastCalculatedBPM' = Rat(60000 * Len(used), sum)
                    /\ serialTx'[1].val[4] = PrintFloat2(lastCalculatedBPM')]_vars

\* a step between two recomputes, printed with the non-zero cached BPM
C12_Witness ==
    /\ ev.kind = "step"
    /\ updateStride = 2
    /\ stepCounter % updateStride # 0
    /\ lastCalculatedBPM # ZeroBPM
    /\ PrintedAvg = PrintFloat2(lastCalculatedBPM)

\* C13: a START taken while sessionStarting is true empties the history,
\* zeroes stepCounter and the cached BPM, sets sessionStarted, clears
\* sessionStarting and writes the one line ACK,START; sessionStarting is set
\* again only by RESET, so a second START before a RESET is not honoured
C13_StartHonoured ==
    [][/\ (ev'.kind = "cmd" /\ ev'.command = T_START /\ sessionStarting) =>
             /\ stepHistory'.count = 0
             /\ stepLog' = << >>
             /\ stepCounter' = 0
             /\ lastCalculatedBPM' = ZeroBPM
             /\ sessionStarted'
             /\ ~sessionStarting'
             /\ serialTx' = << Line("ACK,START", << >>) >>
       /\ (sessionStarting' /\ ~sessionStarting) => (ev'.kind = "cmd" /\ ev'.command = T_RESET)
       /\ (ev'.kind = "cmd" /\ ev'.command = T_START /\ ~sessionStarting) =>
             /\ serialTx' = << >>
             /\ UNCHANGED << stepHistory, stepCounter, sessionStarted >>]_vars

\* a START honoured after steps had been stored and counted
C13_Witness ==
    /\ ev.kind = "cmd"
    /\ ev.command = T_START
    /\ serialTx = << Line("ACK,START", << >>) >>
    /\ stepHistory.history[0].intervalMS > 0
    /\ stepHistory.count = 0
    /\ stepCounter = 0

BadWindowLines == { WinLine(<< "0" >>), WinLine(<< "2", "1" >>), WinLine(<< "-", "3" >>),
                    WinLine(<< "x" >>), WinLine(<< >>) }

\* SET_STRIDE lines with the n they carry, and those without a number
StrideArgs == { << StrideLine(<< "2" >>), 2 >>, << StrideLine(<< "4" >>), 4 >>,
                << StrideLine(<< "0" >>), 0 >>, << StrideLine(<< "-", "1" >>), -1 >> }

BadStrideLines == { StrideLine(<< "x" >>), StrideLine(<< >>) }

\* the line is a SET_STRIDE whose n is outside 1..w, not a number, or missing
BadStride(line, w) ==
    \/ line \in BadStrideLines
    \/ \E p \in StrideArgs : p[1] = line /\ (p[2] < 1 \/ p[2] > w)

CalMargins == { << CalLine(<< >>), 150 >>, << CalLine(<< ",", "2", "0", "0" >>), 200 >>,
                << CalLine(<< ",", "0" >>), 150 >>, << CalLine(<< ",", "-", "5" >>), 150 >> }

\* C16 (as stated): for a CAL_WEIGHT[,margin] line the gateway sends one
\* Control{CalibrateWeight, margin} packet (150 for a margin absent or <= 0)
\* and its reply to the host is the single line ACK,CAL_WEIGHT,DISPATCHED
C16_Dispatched ==
    [][\A p \in CalMargins :
          (ev'.kind = "cmd" /\ ev'.command = p[1]) =>
              /\ radioTx' = << ControlPacket(CMD_CAL_WEIGHT, p[2]) >>
              /\ serialTx' = << Line("ACK,CAL_WEIGHT,DISPATCHED", << >>) >>]_vars

\* -------------------------------------------------------- handshake claims
IsCmd(e, line) == e.kind = "cmd" /\ e.command = line

\* C29: in whatever state the host's RESET is read it is answered ACK,RESET
\* and arms the session; nothing but the reading of START disarms it; and the
\* START read while it is armed is answered ACK,START and leaves the history
\* empty and the step counter and cached BPM zero. So RESET followed by START
\* is answered ACK,RESET, ACK,START from every state
C29_Handshake ==
    [][/\ IsCmd(ev', T_RESET) =>
             /\ serialTx' = << Line("ACK,RESET", << >>) >>
             /\ sessionStarting'
       /\ (sessionStarting /\ ~IsCmd(ev', T_START)) => sessionStarting'
       /\ (sessionStarting /\ IsCmd(ev', T_START)) =>
             /\ serialTx' = << Line("ACK,START", << >>) >>
             /\ stepHistory'.count = 0
             /\ stepLog' = << >>
             /\ stepCounter' = 0
             /\ lastCalculatedBPM' = ZeroBPM]_vars

\* the START of a handshake made after two steps had been stored and averaged
C29_Witness ==
    /\ IsCmd(ev, T_START)
    /\ serialTx = << Line("ACK,START", << >>) >>
    /\ sessionStartTime >= 1
    /\ stepHistory.history[0].intervalMS > 0
    /\ stepHistory.history[1].intervalMS > 0
    /\ stepHistory.count = 0
    /\ stepCounter = 0
    /\ lastCalculatedBPM = ZeroBPM

\* ---------------------------------------------------------- session claims
Intervals(l) == [i \in 1 .. Len(l) |-> l[i].intervalMS]

\* the step just printed is the one that completes the intervals ivs of a
\* session run with window 3 and stride 1
AfterSteps(ivs) ==
    /\ ev.kind = "step"
    /\ ~sessionStarting
    /\ smoothingWindow = 3
    /\ updateStride = 1
    /\ Intervals(stepLog) = ivs

\* C10 (as stated): 500, 500, 500 prints 120.00 and a fourth step of 1000
\* prints 90.01
C10_EndToEnd9001 ==
    /\ AfterSteps(<< 500, 500, 500 >>) => PrintedAvg = 12000
    /\ AfterSteps(<< 500, 500, 500, 1000 >>) => PrintedAvg = 9001

\* C10 (amended): 500, 500, 500 prints 120.00 and a fourth step of 1000,
\* averaged with the two before it, prints 90.00
C10_EndToEnd ==
    /\ AfterSteps(<< 500, 500, 500 >>) => PrintedAvg = 12000
    /\ AfterSteps(<< 500, 500, 500, 1000 >>) =>
          /\ PrintedAvg = 9000
          /\ lastCalculatedBPM = Rat(60000 * 3, 500 + 500 + 1000)

C10_Witness == AfterSteps(<< 500, 500, 500, 1000 >>) /\ PrintedAvg = 9000

\* ------------------------------------------------------------ codec claims
\* C8: a Control packet with cmd CalibrateWeight and any int16 arg, encoded by
\* sendControl and taken by the sensor's callback, or encoded by
\* sendControlAck and taken by the gateway's callback, decodes to the cmd and
\* arg that were sent
C8_RoundTrip ==
    /\ (ev.kind = "ctrl" /\ sEv.kind = "recv") =>
          /\ ctrlPending
          /\ ctrlPacket[1] = MSG_CMD
          /\ ctrlPacket[2] = ev.cmd
          /\ I16FromBytes(ctrlPacket, 3) = ev.arg
    /\ (sEv.kind = "ack" /\ ev.kind = "recv") =>
          /\ ev.data[1] = MSG_CMD
          /\ ev.data[2] = sEv.cmd
          /\ I16FromBytes(ev.data, 3) = sEv.arg
          /\ serialTx = IF sEv.arg >= 0 THEN << Line("ACK,CAL_WEIGHT,", << sEv.arg >>) >>
                        ELSE << Line("ERR,CAL_WEIGHT", << >>) >>

\* the gateway's CalibrateWeight with arg 150, arrived at the sensor
C8_Witness ==
    /\ ev.kind = "ctrl"
    /\ ev.arg = 150
    /\ sEv.kind = "recv"
    /\ ctrlPending
    /\ I16FromBytes(ctrlPacket, 3) = 150

\* ------------------------------------------------------ calibration claims
\* the poll just taken ran a calibration for a CalibrateWeight packet
Calibrated == sEv.kind = "poll" /\ sEv.calibrated /\ ctrlPacket[2] = CMD_CAL_WEIGHT

\* the margin of the calibration just run: the packet's arg, 150 for arg <= 0
CalMargin == LET a == I16FromBytes(ctrlPacket, 3) IN IF a <= 0 THEN 150 ELSE a

\* C11: a calibration with margin m (150 for m <= 0) and sample averages avgR,
\* avgL sets threshold = max(300, max(avgR, avgL) - m) and pressureBuffer =
\* max(200, threshold / 2); averages 1800 with margin 150 give 1650 and 825
C11_Calibration ==
    Calibrated =>
        LET avgR == sEv.sums[1] \div 200
            avgL == sEv.sums[2] \div 200
        IN  /\ threshold = Max(300, Max(avgR, avgL) - CalMargin)
            /\ pressureBuffer = Max(200, threshold \div 2)
            /\ (Max(avgR, avgL) = 1800 /\ CalMargin = 150) => (threshold = 1650 /\ pressureBuffer = 825)

\* the left sensor's average 1800 with margin 150
C11_Witness ==
    /\ Calibrated
    /\ sEv.sums = << 20000, 360000 >>
    /\ CalMargin = 150
    /\ threshold = 1650
    /\ pressureBuffer = 825

\* C17 (as stated): a Control packet with a cmd other than CalibrateWeight is
\* echoed by the sensor with a failure arg, and the gateway, on receiving the
\* echo, writes the line ERR,CAL_WEIGHT to the host
C17_UnknownCmdError ==
    /\ (sEv.kind = "poll" /\ sEv.calibrated /\ ctrlPacket[2] # CMD_CAL_WEIGHT) =>
          (sensorTx = << sendControlAck(ctrlPacket[2], -1) >> /\ I16FromBytes(sensorTx[1], 3) < 0)
    /\ (ev.kind = "recv" /\ Len(ev.data) = SizeofPacket /\ ev.data[1] = MSG_CMD
            /\ ev.data[2] # CMD_CAL_WEIGHT) =>
          serialTx = << Line("ERR,CAL_WEIGHT", << >>) >>

IsDeltaPacket(p) == p[1] = MSG_BPM_DELTA

\* a debounced press edge in the pass just taken: the button's stable level
\* went from released to pressed
PressEdge(b, bNext) == b.stable = HIGH /\ bNext.stable = LOW

\* what a press edge at time t leaves: the one packet with the button's
\* direction, and both timers at t
Armed(bNext, tx, dir, t) ==
    /\ tx = << DeltaPacket(dir) >>
    /\ bNext.tPress = t
    /\ bNext.tRepeat = t

\* C21: a pass of loop() in which a button's debounced level goes from
\* released to pressed sends exactly one TempoDelta packet for that button,
\* with delta +1 for Up and -1 for Down, and sets the button's press-start and
\* repeat times to the pass's time
C21_PressEdge ==
    [][(sEv'.kind = "poll") =>
          /\ PressEdge(buttonUp, buttonUp') => Armed(buttonUp', sEv'.btnTx.up, 1, sEv'.t)
          /\ PressEdge(buttonDown, buttonDown') => Armed(buttonDown', sEv'.btnTx.down, -1, sEv'.t)]_vars

C21_Witness ==
    /\ sEv.kind = "poll"
    /\ buttonDown.stable = LOW
    /\ Armed(buttonDown, sEv.btnTx.down, -1, sEv.t)
    /\ sensorTx = << << MSG_BPM_DELTA, 255, 0, 0, 0, 0 >> >>

RepeatMagnitude(held) == IF held < 1000 THEN 1 ELSE IF held < 2500 THEN 2 ELSE 5

\* a packet sent for a button that was debounced-pressed before the pass and
\* still is: the hold is long enough, the last tick is far enough back, and
\* the delta is the table's magnitude with the button's sign
RepeatInOrder(b, bNext, tx, dir, t) ==
    (b.stable = LOW /\ bNext.stable = LOW /\ tx # << >>) =>
        /\ U32Diff(t, b.tPress) >= FIRST_REPEAT_DELAY_MS
        /\ U32Diff(t, b.tRepeat) >= REPEAT_RATE_MS
        /\ tx = << DeltaPacket(dir * RepeatMagnitude(U32Diff(t, b.tPress))) >>

\* C22 (as stated): while a button stays debounced-pressed no TempoDelta is
\* sent for it before it has been held 200 ms, ticks are at least 60 ms apart,
\* and a tick's delta is 1, 2 or 5 by the time held, with the button's sign
C22_Repeat ==
    [][(sEv'.kind = "poll") =>
          /\ RepeatInOrder(buttonUp, buttonUp', sEv'.btnTx.up, 1, sEv'.t)
          /\ RepeatInOrder(buttonDown, buttonDown', sEv'.btnTx.down, -1, sEv'.t)]_vars

\* C24 (as stated): after every pass of loop() each button's press-start time
\* is non-zero exactly when its debounced level is pressed
C24_PressStart ==
    /\ (buttonUp.tPress # 0) <=> (buttonUp.stable = LOW)
    /\ (buttonDown.tPress # 0) <=> (buttonDown.stable = LOW)

\* what a pass leaves of a button that ends it released: the press-start
\* time cleared and nothing sent; a pass that does send for a button it found
\* released is therefore a press edge
Quiet(b, bNext, tx) ==
    /\ (bNext.stable = HIGH) => (bNext.tPress = 0 /\ tx = << >>)
    /\ (b.stable = HIGH /\ tx # << >>) => PressEdge(b, bNext)

\* C34: from the pass in which a button's debounced release clears its
\* press-start time, no pass sends a TempoDelta for that button until the pass
\* of its next debounced press edge
C34_QuietAfterRelease ==
    [][(sEv'.kind = "poll") =>
          /\ Quiet(buttonUp, buttonUp', sEv'.btnTx.up)
          /\ Quiet(buttonDown, buttonDown', sEv'.btnTx.down)]_vars

\* Up was pressed and released, and a pass comes when a held button would
\* have been due its first repeat: nothing is sent
C34_Witness ==
    /\ sEv.kind = "poll"
    /\ buttonUp.stable = HIGH
    /\ buttonUp.tPress = 0
    /\ buttonUp.tRepeat > 0
    /\ U32Diff(sEv.t, buttonUp.tRepeat) >= FIRST_REPEAT_DELAY_MS
    /\ sEv.btnTx.up = << >>

\* ----------------------------------------------------------- handoff claims
\* C25: whatever arrives before, between and after the steps of loop(), the
\* type loop() goes on to process and the payload it holds for that type are
\* those of one buffer, the last one the callback took before the copy
C25_Snapshot ==
    (pc = "process") =>
        /\ handoff.copied >= 1
        /\ LET c == Carried(handoff.arrived[handoff.copied])
           IN  /\ type = c.type
               /\ (type = MSG_STEP) => (stepCopy = c.step)
               /\ (type = MSG_BPM_DELTA) => (deltaCopy = c.delta)

\* a tick, then a step arrived before the copy, and one more buffer after it
C25_Witness ==
    /\ pc = "process"
    /\ type = MSG_STEP
    /\ handoff.copied = 2
    /\ Len(handoff.arrived) = 3
    /\ Carried(handoff.arrived[1]).type = MSG_BPM_DELTA
    /\ Carried(handoff.arrived[3]).type = MSG_STEP
    /\ Carried(handoff.arrived[3]).step # stepCopy

\* the line loop() writes for a taken buffer (no session start pending)
LineFor(line, data) ==
    LET c == Carried(data)
    IN  IF c.type = MSG_BPM_DELTA
        THEN line = Line("BTN,", << c.delta >>)
        ELSE /\ line.tag = "STEP"
             /\ line.val[2] = c.step.footId
             /\ line.val[3] = PrintFloat2(instantBPM(c.step.intervalMS))

\* C26 (as stated): the step and BTN lines written so far are the lines of
\* the buffers taken so far, one line per buffer, in arrival order
C26_LinePerPacket ==
    /\ Len(handoff.reported) <= Len(handoff.arrived)
    /\ \A i \in 1 .. Len(handoff.reported) : LineFor(handoff.reported[i], handoff.arrived[i])

\* ------------------------------------------------------------ tuning claims
\* C27: threshold and pressureBuffer change only in a pass of loop() that
\* runs the calibration, which it does only for a pending Control packet with
\* cmd = CalibrateWeight; and a packet becomes pending only when a full-size
\* buffer tagged Control is received. Steps, button ticks, other buffers and
\* other commands leave both values as they were
C27_OnlyCalibration ==
    [][/\ (threshold' # threshold \/ pressureBuffer' # pressureBuffer) =>
              /\ sEv'.kind = "poll"
              /\ ctrlPending
              /\ ctrlPacket[1] = MSG_CMD
              /\ ctrlPacket[2] = CMD_CAL_WEIGHT
       /\ (ctrlPending' /\ ~ctrlPending) =>
              /\ sEv'.kind = "recv"
              /\ Len(sEv'.data) = SizeofPacket
              /\ sEv'.data[1] = MSG_CMD
              /\ ctrlPacket' = sEv'.data
       /\ (ctrlPacket' # ctrlPacket) => ctrlPending']_vars

\* a calibration has changed both values, and a later pass has sent a step
\* and a button tick under the new values
C27_Witness ==
    /\ sEv.kind = "poll"
    /\ threshold # 1200
    /\ pressureBuffer # 600
    /\ ~sEv.calibrated
    /\ HasStep(sensorTx)
    /\ sEv.btnTx.up # << >>

\* ---------------------------------------------------------- dispatch claims
IsDispatched(line) == line = Line("ACK,CAL_WEIGHT,DISPATCHED", << >>)

\* the line that carries the sensor's reply to the k-th request
ReplyLine(k) == Line("ACK,CAL_WEIGHT,", << DispatchSums[1] \div CalSamples - DispatchMargins[k] >>)

\* C30: wherever the sensor's reply to the k-th CAL_WEIGHT request stands
\* among the lines written to the host, the k-th ACK,CAL_WEIGHT,DISPATCHED
\* stands before it
C30_DispatchedFirst ==
    \A k \in 1 .. Len(DispatchMargins) : \A j \in 1 .. Len(handoff.reported) :
        (handoff.reported[j] = ReplyLine(k)) =>
            Len(SelectSeq(SubSeq(handoff.reported, 1, j - 1), IsDispatched)) >= k

\* the reply to the first request arrives between the two lines of the
\* second, and the reply to the second after that
C30_Witness ==
    \E j \in 2 .. Len(handoff.reported) - 2 :
        /\ handoff.reported[j] = ReplyLine(1)
        /\ handoff.reported[j - 1] = Line("ACK,CAL_WEIGHT", << >>)
        /\ IsDispatched(handoff.reported[j + 1])
        /\ handoff.reported[j + 2] = ReplyLine(2)

\* ------------------------------------------------- StepBuffer invariants
\* the slot getAverageBPM reads in its i-th iteration (i = 1 is the newest)
SlotBack(b, i) == b.history[(b.head - i + MAX_WINDOW_SIZE) % MAX_WINDOW_SIZE]

\* C31: after any sequence of add, clear and trimToSize, 0 <= count <= 20,
\* 0 <= head < 20, and the count slots walking backward from head - 1 hold,
\* newest first, exactly the steps added since the last clear() that no
\* trimToSize has discarded
C31_Representation ==
    /\ stepHistory.count \in 0 .. MAX_WINDOW_SIZE
    /\ stepHistory.head \in 0 .. (MAX_WINDOW_SIZE - 1)
    /\ stepHistory.count = Len(stepLog)
    /\ \A i \in 1 .. stepHistory.count :
          SlotBack(stepHistory, i) = stepLog[Len(stepLog) - i + 1]

\* a full array trimmed to three, then one more add that wraps head: the four
\* slots read lie on both sides of the wrap
C31_Witness ==
    /\ ev.kind = "add"
    /\ nRecv > MAX_WINDOW_SIZE
    /\ stepHistory.head = 1
    /\ stepHistory.count = 4

\* ------------------------------------------------ configuration invariants
\* C32: in every state of the gateway 1 <= updateStride <= smoothingWindow
\* <= 20, so stepCounter % updateStride never divides by zero
C32_StrideInWindow ==
    /\ 1 <= updateStride
    /\ updateStride <= smoothingWindow
    /\ smoothingWindow <= MAX_WINDOW_SIZE

\* SET_WINDOW,1 taken while the stride was 2 (the one step so far was not a
\* recompute, so the cache is still 0): the stride is brought down with it
C32_Witness ==
    /\ ev.kind = "cmd"
    /\ ev.command = WinLine(<< "1" >>)
    /\ stepCounter = 1
    /\ stepHistory.count = 1
    /\ lastCalculatedBPM = ZeroBPM
    /\ smoothingWindow = 1
    /\ updateStride = 1

\* ----------------------------------------------------------- debounce claims
\* for how long the Up pin has had its level when the pass just taken read it
PinAge == sensorClock - upPin.since

\* C33 (as stated): the debounced state changes only in a pass that reads a raw
\* level different from it which the pin has held for at least DEBOUNCE_MS,
\* and a pass sends the TempoDelta of a press only when the pin has been low
\* that long: a shorter pulse changes nothing and sends nothing
C33_Debounce ==
    [][sEv'.kind = "poll" =>
          /\ (buttonUp'.stable # buttonUp.stable) =>
                (upPin'.level = buttonUp'.stable /\ PinAge' >= DEBOUNCE_MS)
          /\ (buttonUp.tPress = 0 /\ \E k \in 1 .. Len(sensorTx') : IsDeltaPacket(sensorTx'[k])) =>
                (upPin'.level = LOW /\ PinAge' >= DEBOUNCE_MS)]_vars

\* ------------------------------------------------------------ stream claims
\* C35 (as stated): every line that reaches the host is written by one
\* writer from its first character to its end: after a Serial.print that does
\* not end the line, the next to write is the same writer
C35_WholeLines ==
    \A i \in 1 .. Len(handoff.reported) - 1 :
        ~handoff.reported[i].eol => handoff.reported[i + 1].by = handoff.reported[i].by

\* -------------------------------------------------------------- tick claims
\* C36: when loop() processes a TempoDelta it writes the one line BTN,<delta>
\* with the delta it copied, sends nothing, and leaves history, step counter,
\* cached BPM, sessionStarted, sessionStarting, window, stride and the
\* session's and the last step's times as they were
C36_TickOnly ==
    [][(pc = "process" /\ pc' = "top" /\ type = MSG_BPM_DELTA) =>
          /\ serialTx' = << Line("BTN,", << deltaCopy >>) >>
          /\ radioTx' = << >>
          /\ UNCHANGED << stepHistory, stepLog, stepCounter, lastCalculatedBPM, sessionStarted,
                          sessionStarting, smoothingWindow, updateStride, sessionStartTime,
                          lastStepRecvTime >>]_vars

\* a tick processed between an honoured START and the first step: the seed
\* is still there
C36_Witness ==
    /\ ev.kind = "btn"
    /\ serialTx = << Line("BTN,", << -2 >>) >>
    /\ sessionStarted
    /\ ~sessionStarting
    /\ stepCounter = 0

\* ------------------------------------------------------ linked-list claims
SameBpm(a, b) == a.val[3] = b.val[3] /\ a.val[4] = b.val[4]

\* C37 (as stated): on every step line the gateway writes the instantBpm and
\* avgBpm the linked-list gateway writes for the same lines and steps
C37_SameAsLegacy ==
    ev.kind \in { "step", "seed" } => SameBpm(serialTx[1], legacy.line)

\* C37: on every step line the gateway writes the instantBpm and avgBpm the
\* linked-list gateway writes for the same lines and steps, as long as no
\* SET_WINDOW since the last honoured START has raised the window while the
\* buffer held more steps than the old window
C37_SameUntilWidened ==
    (ev.kind \in { "step", "seed" } /\ ~legacy.widened) => SameBpm(serialTx[1], legacy.line)

\* a step line with an average on it, written while the list has dropped a
\* step the buffer still holds
C37_Witness ==
    /\ ev.kind = "step"
    /\ ~legacy.widened
    /\ stepHistory.count > legacy.stepHistory.listSize
    /\ serialTx[1].val[4] = 6000
    /\ SameBpm(serialTx[1], legacy.line)

====
